---- MODULE Spec2Model ----
(***************************************************************************)
(* A model of the Stack interpreter of src/src/main.rs: the value model    *)
(* (Type), the lexer (analyze_syntax), the evaluator (evaluate_program,    *)
(* execute_command, pop_stack), thread forking and the HTTP dispatcher     *)
(* (server, handle, authenticate).                                         *)
(*                                                                         *)
(* Text is modelled as a sequence of one-character strings, so that the    *)
(* lexer, the literal tests and the coercions work on characters as the    *)
(* code does.  Numbers (f64 in the code) are modelled as integers: the     *)
(* programs of the model use no fractional, infinite or NaN number.        *)
(***************************************************************************)
EXTENDS Integers, Sequences, FiniteSets, TLC

VARIABLES
    execs,     \* executor id -> Executor (stack, memory, mode, position)
    alive,     \* the process is running (no exit, main has not ended)
    start,     \* history: the main executor as constructed, and its source
    actor,     \* history: the executor (0: none, the environment) that moved last
    sv,        \* the accept loop of Executor::server: its position and request
    incoming,  \* connections waiting in the listener's queue
    conns      \* every connection so far: its request, state and responses

vars == <<execs, alive, start, actor, sv, incoming, conns>>

(***************************************************************************)
(* Text helpers (Rust's str methods used by the code).                     *)
(***************************************************************************)
Digits == <<"0", "1", "2", "3", "4", "5", "6", "7", "8", "9">>

DigitSet == {Digits[i] : i \in 1..10}

DigitVal(c) == (CHOOSE i \in 1..10 : Digits[i] = c) - 1

IsDigits(s) == Len(s) > 0 /\ \A i \in 1..Len(s) : s[i] \in DigitSet

RECURSIVE DigitsVal(_)
DigitsVal(s) ==
    IF s = <<>> THEN 0
    ELSE DigitsVal(SubSeq(s, 1, Len(s) - 1)) * 10 + DigitVal(s[Len(s)])

\* str::parse::<f64>() on the integer texts the model uses: an optional sign
\* and decimal digits.  Anything else is Err.
parse_f64(s) ==
    IF IsDigits(s) THEN [ok |-> TRUE, n |-> DigitsVal(s)]
    ELSE IF Len(s) > 1 /\ s[1] \in {"-", "+"} /\ IsDigits(Tail(s))
         THEN [ok |-> TRUE,
               n |-> IF s[1] = "-" THEN 0 - DigitsVal(Tail(s)) ELSE DigitsVal(Tail(s))]
         ELSE [ok |-> FALSE, n |-> 0]

RECURSIVE NatToString(_)
NatToString(n) ==
    IF n < 10 THEN <<Digits[n + 1]>>
    ELSE NatToString(n \div 10) \o <<Digits[(n % 10) + 1]>>

\* f64::to_string() of an integral value.
NumToString(n) == IF n < 0 THEN <<"-">> \o NatToString(0 - n) ELSE NatToString(n)

\* `x as usize` of an f64: saturating, so a negative number becomes 0.
AsUsize(n) == IF n < 0 THEN 0 ELSE n

StartsWith(s, p) == Len(s) >= Len(p) /\ SubSeq(s, 1, Len(p)) = p

\* str::replace(pat, ""): every non-overlapping occurrence of pat, left to right.
RECURSIVE RemoveAll(_, _)
RemoveAll(s, pat) ==
    IF s = <<>> THEN <<>>
    ELSE IF StartsWith(s, pat) THEN RemoveAll(SubSeq(s, Len(pat) + 1, Len(s)), pat)
    ELSE <<Head(s)>> \o RemoveAll(Tail(s), pat)

\* Vec<String>::join(sep)
RECURSIVE JoinWith(_, _)
JoinWith(ss, sep) ==
    IF ss = <<>> THEN <<>>
    ELSE IF Len(ss) = 1 THEN ss[1]
    ELSE ss[1] \o sep \o JoinWith(Tail(ss), sep)

\* str::split(ch) for a one-character separator: always at least one piece.
RECURSIVE SplitOn(_, _)
SplitOn(s, ch) ==
    IF \A i \in 1..Len(s) : s[i] # ch THEN <<s>>
    ELSE LET k == CHOOSE i \in 1..Len(s) :
                      s[i] = ch /\ \A j \in 1..(i - 1) : s[j] # ch
         IN <<SubSeq(s, 1, k - 1)>> \o SplitOn(SubSeq(s, k + 1, Len(s)), ch)

Reverse(s) == [i \in 1..Len(s) |-> s[Len(s) + 1 - i]]

(***************************************************************************)
(* enum Type and its coercions.                                            *)
(***************************************************************************)
Number(n) == [t |-> "Number", n |-> n]

String(s) == [t |-> "String", s |-> s]

Bool(b) == [t |-> "Bool", b |-> b]

List(l) == [t |-> "List", l |-> l]

Error(e) == [t |-> "Error", e |-> e]

Binary(bytes) == [t |-> "Binary", bytes |-> bytes]

BoolText(b) == IF b THEN <<"t", "r", "u", "e">> ELSE <<"f", "a", "l", "s", "e">>

\* Json(Value): the serde_json value j is a record tagged by its kind k, one of
\* null, bool (b), number (n), string (s), array (a) and object (m, the
\* members [key, val] in the order the map iterates them).
Json(j) == [t |-> "Json", j |-> j]

\* Object(name, HashMap): o maps each field to its value, order lists the
\* fields as this HashMap iterates them.
Object(name, o, order) == [t |-> "Object", name |-> name, o |-> o, order |-> order]

ObjectText(name) == <<"O", "b", "j", "e", "c", "t", "<">> \o name \o <<">">>

Spaces(n) == [i \in 1..n |-> " "]

\* serde_json's string escapes of the characters the model writes.
JsonQuote(str) ==
    <<"\"">> \o JoinWith([i \in 1..Len(str) |->
                             CASE str[i] = "\"" -> <<"\\", "\"">>
                               [] str[i] = "\\" -> <<"\\", "\\">>
                               [] str[i] = "\n" -> <<"\\", "n">>
                               [] str[i] = "\t" -> <<"\\", "t">>
                               [] str[i] = "\r" -> <<"\\", "r">>
                               [] OTHER -> <<str[i]>>], <<>>) \o <<"\"">>

\* serde_json::to_string_pretty: two spaces of indent for each level.
RECURSIVE JsonPretty(_, _)
JsonPretty(j, level) ==
    LET nl(n) == <<"\n">> \o Spaces(2 * n)
    IN CASE j.k = "null" -> <<"n", "u", "l", "l">>
         [] j.k = "bool" -> BoolText(j.b)
         [] j.k = "number" -> NumToString(j.n)
         [] j.k = "string" -> JsonQuote(j.s)
         [] j.k = "array" ->
               IF j.a = <<>> THEN <<"[", "]">>
               ELSE <<"[">> \o nl(level + 1)
                        \o JoinWith([i \in 1..Len(j.a) |-> JsonPretty(j.a[i], level + 1)],
                                    <<",">> \o nl(level + 1))
                        \o nl(level) \o <<"]">>
         [] j.k = "object" ->
               IF j.m = <<>> THEN <<"{", "}">>
               ELSE <<"{">> \o nl(level + 1)
                        \o JoinWith([i \in 1..Len(j.m) |->
                                        JsonQuote(j.m[i].key) \o <<":", " ">>
                                            \o JsonPretty(j.m[i].val, level + 1)],
                                    <<",">> \o nl(level + 1))
                        \o nl(level) \o <<"}">>

ErrorPrefix == <<"e", "r", "r", "o", "r", ":">>

BinaryText(bytes) ==
    <<"B", "i", "n", "a", "r", "y", "<">> \o NumToString(Len(bytes)) \o <<">">>

RECURSIVE display(_)
display(v) ==
    CASE v.t = "Number" -> NumToString(v.n)
      [] v.t = "String" -> <<"(">> \o v.s \o <<")">>
      [] v.t = "Bool" -> BoolText(v.b)
      [] v.t = "List" ->
            <<"[">> \o JoinWith([i \in 1..Len(v.l) |-> display(v.l[i])], <<" ">>) \o <<"]">>
      [] v.t = "Json" -> JsonPretty(v.j, 0)
      [] v.t = "Error" -> ErrorPrefix \o v.e
      [] v.t = "Object" -> ObjectText(v.name)
      [] v.t = "Binary" -> BinaryText(v.bytes)

get_string(v) ==
    CASE v.t = "String" -> v.s
      [] v.t = "Number" -> NumToString(v.n)
      [] v.t = "Bool" -> BoolText(v.b)
      [] v.t = "List" -> display(v)
      [] v.t = "Json" -> (IF v.j.k = "string" THEN v.j.s ELSE <<>>)
      [] v.t = "Error" -> ErrorPrefix \o v.e
      [] v.t = "Object" -> ObjectText(v.name)
      [] v.t = "Binary" -> BinaryText(v.bytes)

get_number(v) ==
    CASE v.t = "String" -> parse_f64(v.s).n
      [] v.t = "Number" -> v.n
      [] v.t = "Bool" -> (IF v.b THEN 1 ELSE 0)
      [] v.t = "Json" -> (IF v.j.k = "number" THEN v.j.n ELSE 0)
      [] v.t = "List" -> Len(v.l)
      [] v.t = "Error" -> parse_f64(v.e).n
      [] v.t = "Object" -> Len(v.order)
      [] v.t = "Binary" -> Len(v.bytes)

\* Mutant of get_bool: an Object is true when it has fields, like the other
\* containers.
get_bool_object_non_empty(v) ==
    CASE v.t = "String" -> v.s # <<>>
      [] v.t = "Number" -> v.n # 0
      [] v.t = "Bool" -> v.b
      [] v.t = "List" -> v.l # <<>>
      [] v.t = "Json" -> (IF v.j.k = "bool" THEN v.j.b ELSE FALSE)
      [] v.t = "Error" -> v.e = BoolText(TRUE)
      [] v.t = "Object" -> v.order # <<>>
      [] v.t = "Binary" -> v.bytes # <<>>

get_bool(v) ==
    CASE v.t = "String" -> v.s # <<>>
      [] v.t = "Number" -> v.n # 0
      [] v.t = "Bool" -> v.b
      [] v.t = "List" -> v.l # <<>>
      [] v.t = "Json" -> (IF v.j.k = "bool" THEN v.j.b ELSE FALSE)
      [] v.t = "Error" -> v.e = BoolText(TRUE)
      [] v.t = "Object" -> v.order = <<>>
      [] v.t = "Binary" -> v.bytes # <<>>

get_list(v) ==
    CASE v.t = "String" -> [i \in 1..Len(v.s) |-> String(<<v.s[i]>>)]
      [] v.t = "Number" -> <<v>>
      [] v.t = "Bool" -> <<v>>
      [] v.t = "List" -> v.l
      [] v.t = "Json" ->
            IF v.j.k = "object" THEN [i \in 1..Len(v.j.m) |-> String(v.j.m[i].key)]
            ELSE <<>>
      [] v.t = "Error" -> <<v>>
      [] v.t = "Object" -> [i \in 1..Len(v.order) |-> v.o[v.order[i]]]
      [] v.t = "Binary" -> [i \in 1..Len(v.bytes) |-> Number(v.bytes[i])]

(***************************************************************************)
(* Executor::analyze_syntax: the lexer.                                    *)
(***************************************************************************)
\* code.replace(['\n', '\t', '\r', U+3000], " ")
Whitespace == {"\n", "\t", "\r"}

Normalise(code) ==
    [i \in 1..Len(code) |-> IF code[i] \in Whitespace THEN " " ELSE code[i]]

LexInit ==
    [syntax |-> <<>>, buffer |-> <<>>, brackets |-> 0, parentheses |-> 0,
     hash |-> FALSE, escape |-> FALSE]

\* The `_` arm of the match, shared by the lexer and the string-escape pass.
LexOther(st, c) ==
    LET top == st.parentheses = 0 /\ st.brackets = 0 /\ ~st.hash
        add == IF top
               THEN IF st.escape /\ c \in {"n", "t", "r"} THEN <<"\\", c>> ELSE <<c>>
               ELSE IF st.escape THEN <<"\\", c>> ELSE <<c>>
    IN [st EXCEPT !.buffer = @ \o add, !.escape = FALSE]

\* Mutant of LexChar: the space arm pushes the buffer even when it is empty.
LexCharFlushesEmpty(st, c, split) ==
    CASE c = "\\" /\ ~st.escape -> [st EXCEPT !.escape = TRUE]
      [] c = "(" /\ ~st.hash /\ ~st.escape ->
            [st EXCEPT !.brackets = @ + 1, !.buffer = Append(@, c)]
      [] c = ")" /\ ~st.hash /\ ~st.escape ->
            [st EXCEPT !.brackets = @ - 1, !.buffer = Append(@, c)]
      [] c = "#" /\ ~st.escape ->
            [st EXCEPT !.hash = ~@, !.buffer = Append(@, c)]
      [] c = "[" /\ ~st.hash /\ st.brackets = 0 /\ ~st.escape ->
            [st EXCEPT !.parentheses = @ + 1, !.buffer = Append(@, c)]
      [] c = "]" /\ ~st.hash /\ st.brackets = 0 /\ ~st.escape ->
            [st EXCEPT !.parentheses = @ - 1, !.buffer = Append(@, c)]
      [] split /\ c = " " /\ ~st.hash /\ st.parentheses = 0 /\ st.brackets = 0
           /\ ~st.escape ->
            [st EXCEPT !.syntax = Append(@, st.buffer), !.buffer = <<>>]
      [] OTHER -> LexOther(st, c)

\* One character of the scan; `split` is TRUE in the lexer (the space arm) and
\* FALSE in the string-escape pass of evaluate_program, which has no such arm.
LexChar(st, c, split) ==
    CASE c = "\\" /\ ~st.escape -> [st EXCEPT !.escape = TRUE]
      [] c = "(" /\ ~st.hash /\ ~st.escape ->
            [st EXCEPT !.brackets = @ + 1, !.buffer = Append(@, c)]
      [] c = ")" /\ ~st.hash /\ ~st.escape ->
            [st EXCEPT !.brackets = @ - 1, !.buffer = Append(@, c)]
      [] c = "#" /\ ~st.escape ->
            [st EXCEPT !.hash = ~@, !.buffer = Append(@, c)]
      [] c = "[" /\ ~st.hash /\ st.brackets = 0 /\ ~st.escape ->
            [st EXCEPT !.parentheses = @ + 1, !.buffer = Append(@, c)]
      [] c = "]" /\ ~st.hash /\ st.brackets = 0 /\ ~st.escape ->
            [st EXCEPT !.parentheses = @ - 1, !.buffer = Append(@, c)]
      [] split /\ c = " " /\ ~st.hash /\ st.parentheses = 0 /\ st.brackets = 0
           /\ ~st.escape ->
            IF st.buffer # <<>>
            THEN [st EXCEPT !.syntax = Append(@, st.buffer), !.buffer = <<>>]
            ELSE st
      [] OTHER -> LexOther(st, c)

\* for c in code.chars(): characters lo..hi in order, from state st.  The range
\* is halved so that the evaluation stays shallow on long texts.
RECURSIVE LexScan(_, _, _, _, _)
LexScan(st, code, lo, hi, split) ==
    IF lo > hi THEN st
    ELSE IF lo = hi THEN LexChar(st, code[lo], split)
    ELSE LET mid == (lo + hi) \div 2
             left == LexScan(st, code, lo, mid, split)
         IN IF left.escape \in BOOLEAN
            THEN LexScan(left, code, mid + 1, hi, split)
            ELSE st

\* Mutant of analyze_syntax: the buffer left at the end of the input is dropped.
analyze_syntax_no_flush(code) == LexScan(LexInit, Normalise(code), 1, Len(code), TRUE).syntax

analyze_syntax(code) ==
    LET st == LexScan(LexInit, Normalise(code), 1, Len(code), TRUE)
    IN IF st.buffer # <<>> THEN Append(st.syntax, st.buffer) ELSE st.syntax

\* The string-escape pass of evaluate_program on the inside of a (...) token.
StringEscape(inner) == LexScan(LexInit, inner, 1, Len(inner), FALSE).buffer

(***************************************************************************)
(* Names the code matches on: the arms of execute_command, and the error   *)
(* kinds, type names and fixed texts it writes.                            *)
(***************************************************************************)
K ==
    [c_add |-> <<"a", "d", "d">>,
     c_sub |-> <<"s", "u", "b">>,
     c_mul |-> <<"m", "u", "l">>,
     c_div |-> <<"d", "i", "v">>,
     c_mod |-> <<"m", "o", "d">>,
     c_pow |-> <<"p", "o", "w">>,
     c_round |-> <<"r", "o", "u", "n", "d">>,
     c_sin |-> <<"s", "i", "n">>,
     c_cos |-> <<"c", "o", "s">>,
     c_tan |-> <<"t", "a", "n">>,
     c_and |-> <<"a", "n", "d">>,
     c_or |-> <<"o", "r">>,
     c_not |-> <<"n", "o", "t">>,
     c_equal |-> <<"e", "q", "u", "a", "l">>,
     c_less |-> <<"l", "e", "s", "s">>,
     c_rand |-> <<"r", "a", "n", "d">>,
     c_shuffle |-> <<"s", "h", "u", "f", "f", "l", "e">>,
     c_repeat |-> <<"r", "e", "p", "e", "a", "t">>,
     c_decode |-> <<"d", "e", "c", "o", "d", "e">>,
     c_encode |-> <<"e", "n", "c", "o", "d", "e">>,
     c_concat |-> <<"c", "o", "n", "c", "a", "t">>,
     c_replace |-> <<"r", "e", "p", "l", "a", "c", "e">>,
     c_split |-> <<"s", "p", "l", "i", "t">>,
     c_case |-> <<"c", "a", "s", "e">>,
     c_join |-> <<"j", "o", "i", "n">>,
     c_find |-> <<"f", "i", "n", "d">>,
     c_regex |-> <<"r", "e", "g", "e", "x">>,
     c_write_file |-> <<"w", "r", "i", "t", "e", "-", "f", "i", "l", "e">>,
     c_read_file |-> <<"r", "e", "a", "d", "-", "f", "i", "l", "e">>,
     c_read_binary |-> <<"r", "e", "a", "d", "-", "b", "i", "n", "a", "r", "y">>,
     c_input |-> <<"i", "n", "p", "u", "t">>,
     c_print |-> <<"p", "r", "i", "n", "t">>,
     c_println |-> <<"p", "r", "i", "n", "t", "l", "n">>,
     c_args_cmd |-> <<"a", "r", "g", "s", "-", "c", "m", "d">>,
     c_eval |-> <<"e", "v", "a", "l">>,
     c_if |-> <<"i", "f">>,
     c_while |-> <<"w", "h", "i", "l", "e">>,
     c_thread |-> <<"t", "h", "r", "e", "a", "d">>,
     c_exit |-> <<"e", "x", "i", "t">>,
     c_get |-> <<"g", "e", "t">>,
     c_set |-> <<"s", "e", "t">>,
     c_del |-> <<"d", "e", "l">>,
     c_append |-> <<"a", "p", "p", "e", "n", "d">>,
     c_insert |-> <<"i", "n", "s", "e", "r", "t">>,
     c_index |-> <<"i", "n", "d", "e", "x">>,
     c_sort |-> <<"s", "o", "r", "t">>,
     c_reverse |-> <<"r", "e", "v", "e", "r", "s", "e">>,
     c_for |-> <<"f", "o", "r">>,
     c_range |-> <<"r", "a", "n", "g", "e">>,
     c_len |-> <<"l", "e", "n">>,
     c_map |-> <<"m", "a", "p">>,
     c_filter |-> <<"f", "i", "l", "t", "e", "r">>,
     c_reduce |-> <<"r", "e", "d", "u", "c", "e">>,
     c_pop |-> <<"p", "o", "p">>,
     c_size_stack |-> <<"s", "i", "z", "e", "-", "s", "t", "a", "c", "k">>,
     c_var |-> <<"v", "a", "r">>,
     c_type |-> <<"t", "y", "p", "e">>,
     c_cast |-> <<"c", "a", "s", "t">>,
     c_mem |-> <<"m", "e", "m">>,
     c_free |-> <<"f", "r", "e", "e">>,
     c_copy |-> <<"c", "o", "p", "y">>,
     c_swap |-> <<"s", "w", "a", "p">>,
     c_now_time |-> <<"n", "o", "w", "-", "t", "i", "m", "e">>,
     c_sleep |-> <<"s", "l", "e", "e", "p">>,
     c_instance |-> <<"i", "n", "s", "t", "a", "n", "c", "e">>,
     c_property |-> <<"p", "r", "o", "p", "e", "r", "t", "y">>,
     c_method |-> <<"m", "e", "t", "h", "o", "d">>,
     c_modify |-> <<"m", "o", "d", "i", "f", "y">>,
     c_all |-> <<"a", "l", "l">>,
     c_sys_info |-> <<"s", "y", "s", "-", "i", "n", "f", "o">>,
     c_get_json |-> <<"g", "e", "t", "-", "j", "s", "o", "n">>,
     c_set_json |-> <<"s", "e", "t", "-", "j", "s", "o", "n">>,
     c_sql |-> <<"s", "q", "l">>,
     c_template |-> <<"t", "e", "m", "p", "l", "a", "t", "e">>,
     c_start_server |-> <<"s", "t", "a", "r", "t", "-", "s", "e", "r", "v", "e", "r">>]

Builtins == {K[f] : f \in DOMAIN K}

Txt ==
    [index_out_range |-> <<"i", "n", "d", "e", "x", "-", "o", "u", "t", "-", "r", "a", "n", "g", "e">>,
     item_not_found |-> <<"i", "t", "e", "m", "-", "n", "o", "t", "-", "f", "o", "u", "n", "d">>,
     number |-> <<"n", "u", "m", "b", "e", "r">>,
     string |-> <<"s", "t", "r", "i", "n", "g">>,
     bool |-> <<"b", "o", "o", "l">>,
     list |-> <<"l", "i", "s", "t">>,
     json |-> <<"j", "s", "o", "n">>,
     error |-> <<"e", "r", "r", "o", "r">>,
     binary |-> <<"b", "i", "n", "a", "r", "y">>,
     auth |-> <<"a", "u", "t", "h">>,
     not_found |-> <<"n", "o", "t", "-", "f", "o", "u", "n", "d">>,
     unauthorized |-> <<"U", "n", "a", "u", "t", "h", "o", "r", "i", "z", "e", "d">>,
     literal404 |-> <<"4", "0", "4", " ", "-", " ", "N", "o", "t", " ", "f", "o", "u", "n", "d">>,
     text_plain |-> <<"t", "e", "x", "t", "/", "p", "l", "a", "i", "n">>]

(***************************************************************************)
(* struct Executor.  `status` is the executor's fate: "run" while it       *)
(* evaluates, "panic" when a Rust panic unwound it, "exit" after           *)
(* process::exit, "serving" inside the accept loop of server (which never  *)
(* returns), "hang" inside a `while` that never ends, "unmodelled" when it *)
(* met an operator the model leaves out.                                   *)
(* `forks` holds the clones that `thread` handed to thread::spawn.         *)
(***************************************************************************)
EmptyMap == [k \in {} |-> 0]

new(mode) ==
    [stack |-> <<>>, memory |-> EmptyMap, mode |-> mode, status |-> "run",
     forks |-> <<>>, routes |-> EmptyMap, printed |-> <<>>]

Push(ex, v) == [ex EXCEPT !.stack = Append(@, v)]

Panic(ex) == [ex EXCEPT !.status = "panic"]

\* HashMap::entry(k).and_modify(|x| *x = v).or_insert(v), and HashMap::insert
MapSet(m, k, v) == [x \in (DOMAIN m) \cup {k} |-> IF x = k THEN v ELSE m[x]]

\* HashMap::remove
MapRemove(m, k) == [x \in (DOMAIN m) \ {k} |-> m[x]]

\* Mutant of pop_stack: self.stack.pop().unwrap(), which panics on an empty stack.
pop_stack_unwrap(ex) ==
    IF ex.stack # <<>>
    THEN [value |-> ex.stack[Len(ex.stack)],
          ex |-> [ex EXCEPT !.stack = SubSeq(@, 1, Len(@) - 1)]]
    ELSE [value |-> String(<<>>), ex |-> Panic(ex)]

pop_stack(ex) ==
    IF ex.stack # <<>>
    THEN [value |-> ex.stack[Len(ex.stack)],
          ex |-> [ex EXCEPT !.stack = SubSeq(@, 1, Len(@) - 1)]]
    ELSE [value |-> String(<<>>), ex |-> ex]

\* The value and the executor left by the first, second and third pop_stack.
Pop1(ex) == pop_stack(ex)

Pop2(ex) == pop_stack(Pop1(ex).ex)

Pop3(ex) == pop_stack(Pop2(ex).ex)

(***************************************************************************)
(* The list operators of execute_command.                                  *)
(***************************************************************************)
\* (min as usize..max as usize).step_by(step as usize), for step > 0
RangeList(lo, hi, st) ==
    IF lo >= hi THEN <<>>
    ELSE [i \in 1..((hi - lo + st - 1) \div st) |-> Number(lo + (i - 1) * st)]

\* Vec::remove(index) and Vec::insert(index, v), index 0-based and in range
VecRemove(l, ix) == SubSeq(l, 1, ix) \o SubSeq(l, ix + 2, Len(l))

VecInsert(l, ix, v) == SubSeq(l, 1, ix) \o <<v>> \o SubSeq(l, ix + 1, Len(l))

cmd_get(ex) ==
    LET index == AsUsize(get_number(Pop1(ex).value))
        list == get_list(Pop2(ex).value)
    IN IF Len(list) > index
       THEN Push(Pop2(ex).ex, list[index + 1])
       ELSE Push(Pop2(ex).ex, Error(Txt.index_out_range))

cmd_set(ex) ==
    LET value == Pop1(ex).value
        index == AsUsize(get_number(Pop2(ex).value))
        list == get_list(Pop3(ex).value)
    IN IF Len(list) > index
       THEN Push(Pop3(ex).ex, List([list EXCEPT ![index + 1] = value]))
       ELSE Push(Pop3(ex).ex, Error(Txt.index_out_range))

cmd_del(ex) ==
    LET index == AsUsize(get_number(Pop1(ex).value))
        list == get_list(Pop2(ex).value)
    IN IF Len(list) > index
       THEN Push(Pop2(ex).ex, List(VecRemove(list, index)))
       ELSE Push(Pop2(ex).ex, Error(Txt.index_out_range))

\* Vec::insert panics when index > len.
cmd_insert(ex) ==
    LET data == Pop1(ex).value
        index == AsUsize(get_number(Pop2(ex).value))
        list == get_list(Pop3(ex).value)
    IN IF index > Len(list)
       THEN Panic(Pop3(ex).ex)
       ELSE Push(Pop3(ex).ex, List(VecInsert(list, index, data)))

cmd_index(ex) ==
    LET target == get_string(Pop1(ex).value)
        list == get_list(Pop2(ex).value)
        hits == {i \in 1..Len(list) : get_string(list[i]) = target}
    IN IF hits # {}
       THEN Push(Pop2(ex).ex, Number((CHOOSE i \in hits : \A j \in hits : i <= j) - 1))
       ELSE Push(Pop2(ex).ex, Error(Txt.item_not_found))

\* Iterator::step_by panics when the step is 0.
cmd_range(ex) ==
    LET step == AsUsize(get_number(Pop1(ex).value))
        max == AsUsize(get_number(Pop2(ex).value))
        min == AsUsize(get_number(Pop3(ex).value))
    IN IF step = 0
       THEN Panic(Pop3(ex).ex)
       ELSE Push(Pop3(ex).ex, List(RangeList(min, max, step)))

(***************************************************************************)
(* The stack and memory operators of execute_command.                      *)
(***************************************************************************)
\* Mutant of cmd_var: or_insert alone, a name already bound keeps its value.
cmd_var_or_insert(ex) ==
    LET name == get_string(Pop1(ex).value)
        data == Pop2(ex).value
    IN IF name \in DOMAIN ex.memory THEN Pop2(ex).ex
       ELSE [Pop2(ex).ex EXCEPT !.memory = MapSet(@, name, data)]

cmd_var(ex) ==
    LET name == get_string(Pop1(ex).value)
        data == Pop2(ex).value
    IN [Pop2(ex).ex EXCEPT !.memory = MapSet(@, name, data)]

cmd_free(ex) ==
    [Pop1(ex).ex EXCEPT !.memory = MapRemove(@, get_string(Pop1(ex).value))]

\* Mutant of cmd_copy: the popped value is pushed back once.
cmd_copy_once(ex) == Push(Pop1(ex).ex, Pop1(ex).value)

cmd_copy(ex) ==
    LET data == Pop1(ex).value
    IN Push(Push(Pop1(ex).ex, data), data)

\* Mutant of cmd_swap: the value popped first is pushed back in both places.
cmd_swap_twice_b(ex) ==
    LET b == Pop1(ex).value
    IN Push(Push(Pop2(ex).ex, b), b)

cmd_swap(ex) ==
    LET b == Pop1(ex).value
        a == Pop2(ex).value
    IN Push(Push(Pop2(ex).ex, b), a)

cmd_type(ex) ==
    LET v == Pop1(ex).value
    IN Push(Pop1(ex).ex,
            String(CASE v.t = "Number" -> Txt.number
                     [] v.t = "String" -> Txt.string
                     [] v.t = "Bool" -> Txt.bool
                     [] v.t = "List" -> Txt.list
                     [] v.t = "Json" -> Txt.json
                     [] v.t = "Error" -> Txt.error
                     [] v.t = "Binary" -> Txt.binary
                     [] v.t = "Object" -> v.name))

\* Type::get_json: serde_json::from_str of a String is left out of the model,
\* every other value gives itself (Json) or json!({}).
cmd_cast(ex) ==
    LET types == get_string(Pop1(ex).value)
        value == Pop2(ex).value
        e2 == Pop2(ex).ex
    IN CASE types = Txt.number -> Push(e2, Number(get_number(value)))
         [] types = Txt.string -> Push(e2, String(get_string(value)))
         [] types = Txt.bool -> Push(e2, Bool(get_bool(value)))
         [] types = Txt.list -> Push(e2, List(get_list(value)))
         [] types = Txt.json ->
               IF value.t = "String" THEN [e2 EXCEPT !.status = "unmodelled"]
               ELSE Push(e2, IF value.t = "Json" THEN value
                             ELSE Json([k |-> "object", m |-> <<>>]))
         [] types = Txt.error -> Push(e2, Error(get_string(value)))
         [] OTHER -> Push(e2, value)

\* `thread`: self.clone() moved into thread::spawn with the popped code.
cmd_thread(ex) ==
    LET code == get_string(Pop1(ex).value)
        executor == Pop1(ex).ex
    IN [executor EXCEPT
          !.forks = Append(@, [code |-> code, stack |-> executor.stack,
                               memory |-> executor.memory, mode |-> executor.mode])]

(***************************************************************************)
(* Executor::server, the part before the accept loop: the route table      *)
(* HashMap<String, (String, bool, String)> read from the Stack list.       *)
(* Indexing a Vec out of range ([0], [1]) panics.                          *)
(***************************************************************************)
RECURSIVE RouteTable(_, _)
RouteTable(entries, hashmap) ==
    IF entries = <<>> THEN [ok |-> TRUE, hashmap |-> hashmap]
    ELSE LET i == get_list(Head(entries))
             matching == get_list(i[1])
             is_auth == Len(matching) >= 3 /\ get_string(matching[2]) = Txt.auth
             user_data == IF Len(matching) >= 3 THEN get_string(matching[3]) ELSE <<>>
         IN IF Len(i) < 2 \/ matching = <<>>
            THEN [ok |-> FALSE, hashmap |-> hashmap]
            ELSE RouteTable(Tail(entries),
                            MapSet(hashmap, get_string(matching[1]),
                                   [code |-> get_string(i[2]), auth |-> is_auth,
                                    auth_data |-> user_data]))

cmd_start_server(ex) ==
    LET code == Pop1(ex).value
        table == RouteTable(get_list(code), EmptyMap)
    IN IF table.ok
       THEN [Pop2(ex).ex EXCEPT !.status = "serving", !.routes = table.hashmap]
       ELSE Panic(Pop2(ex).ex)

(***************************************************************************)
(* Executor::evaluate_program and Executor::execute_command.  A panic, an  *)
(* exit or the accept loop ends the evaluation of everything that called   *)
(* it, so evaluation goes on only while status is "run".                   *)
(***************************************************************************)
\* Mutant of UnknownCommand: an unrecognised name is reported as an Error.
UnknownCommandIsError(command, ex) == Push(ex, Error(command))

\* The `_` arm of execute_command: the name is used as a string.
UnknownCommand(command, ex) == Push(ex, String(command))

RECURSIVE evaluate_program(_, _)
RECURSIVE RunTokens(_, _)
RECURSIVE EvalToken(_, _)
RECURSIVE execute_command(_, _)
RECURSIVE ForEach(_, _, _, _)
RECURSIVE InstanceLoop(_, _, _, _, _, _, _)
RECURSIVE MapLoop(_, _, _, _, _)
RECURSIVE FilterLoop(_, _, _, _, _)
RECURSIVE ReduceLoop(_, _, _, _, _)
RECURSIVE WhileLoop(_, _, _, _, _)

\* The loop of `for`: bind the variable to each element, evaluate code.
ForEach(list, name, code, ex) ==
    IF list = <<>> THEN ex
    ELSE LET after == evaluate_program(code, [ex EXCEPT !.memory = MapSet(@, name, Head(list))])
         IN IF after.status = "run" THEN ForEach(Tail(list), name, code, after) ELSE after

\* The order in which a HashMap built in this run iterates its keys, given
\* in the order of their first insertion: std's RandomState makes it any
\* order, the history variable `start.hash` (a permutation of
\* 1..MaxFields) says which.
MaxFields == 2

HashOrders == Permutations(1..MaxFields)

IterationOrder(keys) ==
    LET q == SelectSeq([i \in 1..MaxFields |-> start.hash[i]], LAMBDA i : i <= Len(keys))
    IN [i \in 1..Len(keys) |-> keys[q[i]]]

\* The loop of `instance` over class[1..]: a one-element entry takes the next
\* data value, an entry of two or more carries its default, any other entry
\* pushes Error instance-default and the loop goes on.
InstanceLoop(items, data, index, name, object, keys, ex) ==
    IF items = <<>>
    THEN IF Len(keys) > MaxFields THEN [ex EXCEPT !.status = "unmodelled"]
         ELSE Push(ex, Object(name, object, IterationOrder(keys)))
    ELSE LET item == get_list(Head(items))
             field == get_string(item[1])
             seen == IF field \in DOMAIN object THEN keys ELSE Append(keys, field)
         IN IF Len(item) = 1
            THEN IF index < Len(data)
                 THEN InstanceLoop(Tail(items), data, index + 1, name,
                                   MapSet(object, field, data[index + 1]), seen, ex)
                 ELSE Push(ex, Error(<<"i", "n", "s", "t", "a", "n", "c", "e", "-", "s", "h", "o", "r", "t", "a", "g", "e">>))
            ELSE IF Len(item) >= 2
            THEN InstanceLoop(Tail(items), data, index, name,
                              MapSet(object, field, item[2]), seen, ex)
            ELSE InstanceLoop(Tail(items), data, index, name, object, keys,
                              Push(ex, Error(<<"i", "n", "s", "t", "a", "n", "c", "e", "-", "d", "e", "f", "a", "u", "l", "t">>)))

cmd_instance(ex) ==
    LET data == get_list(Pop1(ex).value)
        class == get_list(Pop2(ex).value)
    IN IF class = <<>> THEN Push(Pop2(ex).ex, Error(<<"i", "n", "s", "t", "a", "n", "c", "e", "-", "n", "a", "m", "e">>))
       ELSE InstanceLoop(Tail(class), data, 0, get_string(class[1]), EmptyMap, <<>>,
                         Pop2(ex).ex)

\* Mutant of cmd_property: the receiver is popped before the name.
cmd_property_receiver_first(ex) ==
    LET name == get_string(Pop2(ex).value)
        receiver == Pop1(ex).value
    IN IF receiver.t = "Object"
       THEN Push(Pop2(ex).ex, IF name \in DOMAIN receiver.o THEN receiver.o[name]
                              ELSE Error(<<"p", "r", "o", "p", "e", "r", "t", "y">>))
       ELSE Push(Pop2(ex).ex, Error(<<"n", "o", "t", "-", "o", "b", "j", "e", "c", "t">>))

cmd_property(ex) ==
    LET name == get_string(Pop1(ex).value)
        receiver == Pop2(ex).value
    IN IF receiver.t = "Object"
       THEN Push(Pop2(ex).ex, IF name \in DOMAIN receiver.o THEN receiver.o[name]
                              ELSE Error(<<"p", "r", "o", "p", "e", "r", "t", "y">>))
       ELSE Push(Pop2(ex).ex, Error(<<"n", "o", "t", "-", "o", "b", "j", "e", "c", "t">>))

\* a.replace("\\n", "\n").replace("\\t", "\t").replace("\\r", "\r")
RECURSIVE Unescape(_)
Unescape(a) ==
    IF Len(a) < 2 THEN a
    ELSE IF a[1] = "\\" /\ a[2] \in {"n", "t", "r"}
    THEN <<CASE a[2] = "n" -> "\n" [] a[2] = "t" -> "\t" [] OTHER -> "\r">>
             \o Unescape(SubSeq(a, 3, Len(a)))
    ELSE <<a[1]>> \o Unescape(Tail(a))

\* Mutant of cmd_print: the value is printed but stays on the stack.
cmd_print_keep(ex, newline) ==
    [ex EXCEPT !.printed = Append(@, Unescape(get_string(Pop1(ex).value)))]

\* Mutant of cmd_print: in Debug mode the printed value stays on the stack.
cmd_print_debug_keeps(ex, newline) ==
    LET a == Unescape(get_string(Pop1(ex).value))
    IN IF ex.mode = "Debug"
       THEN [ex EXCEPT !.printed = Append(@, <<"[", "O", "u", "t", "p", "u", "t", "]", ":", " ">> \o a \o <<"\n">>)]
       ELSE [Pop1(ex).ex EXCEPT !.printed = Append(@, IF newline THEN a \o <<"\n">> ELSE a)]

\* `print` and `println`: the text handed to print!/println! is kept in the
\* history field `printed` (the log lines of Debug mode are not).
cmd_print(ex, newline) ==
    LET a == Unescape(get_string(Pop1(ex).value))
        text == IF ex.mode = "Debug" THEN <<"[", "O", "u", "t", "p", "u", "t", "]", ":", " ">> \o a \o <<"\n">>
                ELSE IF newline THEN a \o <<"\n">> ELSE a
    IN [Pop1(ex).ex EXCEPT !.printed = Append(@, text)]

\* Mutant of BindLoopVar: or_insert alone, a bound loop variable is kept.
BindLoopVarOnce(name, x, ex) ==
    IF name \in DOMAIN ex.memory THEN ex ELSE [ex EXCEPT !.memory = MapSet(@, name, x)]

\* entry(vars).and_modify(..).or_insert(x) at the head of each iteration.
BindLoopVar(name, x, ex) == [ex EXCEPT !.memory = MapSet(@, name, x)]

\* The loop of `map`: the popped top of each evaluation is collected.
MapLoop(list, name, code, result_list, ex) ==
    IF list = <<>> THEN Push(ex, List(result_list))
    ELSE LET after == evaluate_program(code, BindLoopVar(name, Head(list), ex))
         IN IF after.status # "run" THEN after
            ELSE MapLoop(Tail(list), name, code,
                         Append(result_list, pop_stack(after).value), pop_stack(after).ex)

\* Mutant of cmd_map: the name is popped before the code.
cmd_map_name_first(ex) ==
    MapLoop(get_list(Pop3(ex).value), get_string(Pop1(ex).value),
            get_string(Pop2(ex).value), <<>>, Pop3(ex).ex)

cmd_map(ex) ==
    MapLoop(get_list(Pop3(ex).value), get_string(Pop2(ex).value),
            get_string(Pop1(ex).value), <<>>, Pop3(ex).ex)

\* The loop of `filter`: the element is kept when the popped top is true.
FilterLoop(list, name, code, result_list, ex) ==
    IF list = <<>> THEN Push(ex, List(result_list))
    ELSE LET after == evaluate_program(code, BindLoopVar(name, Head(list), ex))
         IN IF after.status # "run" THEN after
            ELSE FilterLoop(Tail(list), name, code,
                            IF get_bool(pop_stack(after).value)
                            THEN Append(result_list, Head(list)) ELSE result_list,
                            pop_stack(after).ex)

\* Mutant of cmd_filter: the results of the code are collected, as map does.
cmd_filter_results(ex) ==
    MapLoop(get_list(Pop3(ex).value), get_string(Pop2(ex).value),
            get_string(Pop1(ex).value), <<>>, Pop3(ex).ex)

cmd_filter(ex) ==
    FilterLoop(get_list(Pop3(ex).value), get_string(Pop2(ex).value),
               get_string(Pop1(ex).value), <<>>, Pop3(ex).ex)

\* The loop of `reduce` and what follows it: push Memory[acc], reset the slot.
ReduceLoop(list, acc, now, code, ex) ==
    IF list = <<>>
    THEN [Push(ex, IF acc \in DOMAIN ex.memory THEN ex.memory[acc] ELSE String(<<>>))
             EXCEPT !.memory = MapSet(@, acc, String(<<>>))]
    ELSE LET after == evaluate_program(code, BindLoopVar(now, Head(list), ex))
         IN IF after.status # "run" THEN after
            ELSE ReduceLoop(Tail(list), acc, now, code,
                            [pop_stack(after).ex EXCEPT
                                !.memory = MapSet(@, acc, pop_stack(after).value)])

\* Mutant of cmd_reduce: the accumulator slot is not reset before the loop.
cmd_reduce_keep_acc(ex) ==
    LET p4 == pop_stack(Pop3(ex).ex)
    IN ReduceLoop(get_list(p4.value), get_string(Pop3(ex).value), get_string(Pop2(ex).value),
                  get_string(Pop1(ex).value), p4.ex)

cmd_reduce(ex) ==
    LET p4 == pop_stack(Pop3(ex).ex)
        acc == get_string(Pop3(ex).value)
    IN ReduceLoop(get_list(p4.value), acc, get_string(Pop2(ex).value),
                  get_string(Pop1(ex).value),
                  [p4.ex EXCEPT !.memory = MapSet(@, acc, String(<<>>))])

\* Mutant of cmd_if: the code of if is popped before the code of else.
cmd_if_then_first(ex) ==
    IF get_bool(Pop1(ex).value)
    THEN evaluate_program(get_string(Pop2(ex).value), Pop3(ex).ex)
    ELSE evaluate_program(get_string(Pop3(ex).value), Pop3(ex).ex)

\* `if`: the condition, the code of else, the code of if; one is evaluated.
cmd_if(ex) ==
    IF get_bool(Pop1(ex).value)
    THEN evaluate_program(get_string(Pop3(ex).value), Pop3(ex).ex)
    ELSE evaluate_program(get_string(Pop2(ex).value), Pop3(ex).ex)

\* The most turns of a `while` the model follows.
MaxIter == 3

\* The executor without what it has printed: what its next steps depend on.
Core(ex) == [ex EXCEPT !.printed = <<>>]

\* The loop of `while`: evaluate cond, pop and test, evaluate the code.  A
\* turn that ends where an earlier one ended repeats for ever ("hang");
\* the model gives up ("unmodelled") after MaxIter turns.
WhileLoop(cond, code, ex, heads, turns) ==
    LET tested == evaluate_program(cond, ex)
        top == pop_stack(tested)
        after == evaluate_program(code, top.ex)
    IN IF tested.status # "run" THEN tested
       ELSE IF ~get_bool(top.value) THEN top.ex
       ELSE IF after.status # "run" THEN after
       ELSE IF Core(after) \in heads THEN [after EXCEPT !.status = "hang"]
       ELSE IF turns = 0 THEN [after EXCEPT !.status = "unmodelled"]
       ELSE WhileLoop(cond, code, after, heads \cup {Core(after)}, turns - 1)

\* Mutant of cmd_while: the code is evaluated once before the first test.
cmd_while_do_first(ex) ==
    LET first == evaluate_program(get_string(Pop2(ex).value), Pop2(ex).ex)
    IN IF first.status # "run" THEN first
       ELSE WhileLoop(get_string(Pop1(ex).value), get_string(Pop2(ex).value), first,
                      {Core(first)}, MaxIter)

cmd_while(ex) ==
    WhileLoop(get_string(Pop1(ex).value), get_string(Pop2(ex).value), Pop2(ex).ex,
              {Core(Pop2(ex).ex)}, MaxIter)

execute_command(command, ex) ==
    LET v1 == Pop1(ex).value
        v2 == Pop2(ex).value
        v3 == Pop3(ex).value
        e1 == Pop1(ex).ex
        e2 == Pop2(ex).ex
        e3 == Pop3(ex).ex
    IN CASE command = K.c_add -> Push(e2, Number(get_number(v2) + get_number(v1)))
         [] command = K.c_sub -> Push(e2, Number(get_number(v2) - get_number(v1)))
         [] command = K.c_mul -> Push(e2, Number(get_number(v2) * get_number(v1)))
         [] command = K.c_and -> Push(e2, Bool(get_bool(v2) /\ get_bool(v1)))
         [] command = K.c_or -> Push(e2, Bool(get_bool(v2) \/ get_bool(v1)))
         [] command = K.c_not -> Push(e1, Bool(~get_bool(v1)))
         [] command = K.c_equal -> Push(e2, Bool(get_string(v2) = get_string(v1)))
         [] command = K.c_less -> Push(e2, Bool(get_number(v2) < get_number(v1)))
         [] command = K.c_concat -> Push(e2, String(get_string(v2) \o get_string(v1)))
         [] command = K.c_eval -> evaluate_program(get_string(v1), e1)
         [] command = K.c_if -> cmd_if(ex)
         [] command = K.c_while -> cmd_while(ex)
         [] command = K.c_thread -> cmd_thread(ex)
         [] command = K.c_exit -> [e1 EXCEPT !.status = "exit"]
         [] command = K.c_get -> cmd_get(ex)
         [] command = K.c_set -> cmd_set(ex)
         [] command = K.c_del -> cmd_del(ex)
         [] command = K.c_append -> Push(e2, List(Append(get_list(v2), v1)))
         [] command = K.c_insert -> cmd_insert(ex)
         [] command = K.c_index -> cmd_index(ex)
         [] command = K.c_reverse -> Push(e1, List(Reverse(get_list(v1))))
         [] command = K.c_for -> ForEach(get_list(v3), get_string(v2), get_string(v1), e3)
         [] command = K.c_range -> cmd_range(ex)
         [] command = K.c_print -> cmd_print(ex, FALSE)
         [] command = K.c_println -> cmd_print(ex, TRUE)
         [] command = K.c_instance -> cmd_instance(ex)
         [] command = K.c_property -> cmd_property(ex)
         [] command = K.c_map -> cmd_map(ex)
         [] command = K.c_filter -> cmd_filter(ex)
         [] command = K.c_reduce -> cmd_reduce(ex)
         [] command = K.c_len -> Push(e1, Number(Len(get_list(v1))))
         [] command = K.c_pop -> e1
         [] command = K.c_size_stack -> Push(ex, Number(Len(ex.stack)))
         [] command = K.c_var -> cmd_var(ex)
         [] command = K.c_type -> cmd_type(ex)
         [] command = K.c_cast -> cmd_cast(ex)
         [] command = K.c_free -> cmd_free(ex)
         [] command = K.c_copy -> cmd_copy(ex)
         [] command = K.c_swap -> cmd_swap(ex)
         [] command = K.c_start_server -> cmd_start_server(ex)
         [] command \in Builtins -> [ex EXCEPT !.status = "unmodelled"]
         [] OTHER -> UnknownCommand(command, ex)

\* Mutant of ListLiteral: the popped entries are not put back in push order.
ListLiteralNoReverse(token, ex) ==
    LET old_len == Len(ex.stack)
        after == evaluate_program(SubSeq(token, 2, Len(token) - 1), ex)
        n == Len(after.stack)
    IN IF after.status # "run" THEN after
       ELSE IF n > old_len
       THEN Push([after EXCEPT !.stack = SubSeq(@, 1, old_len)],
                 List(Reverse(SubSeq(after.stack, old_len + 1, n))))
       ELSE Push(after, List(<<>>))

\* Mutant of ListLiteral: the entries below the literal are put back as
\* they were before the inside was evaluated.
ListLiteralRestores(token, ex) ==
    LET old_len == Len(ex.stack)
        after == evaluate_program(SubSeq(token, 2, Len(token) - 1), ex)
        n == Len(after.stack)
    IN IF after.status # "run" THEN after
       ELSE Push([after EXCEPT !.stack = ex.stack],
                 List(IF n > old_len THEN SubSeq(after.stack, old_len + 1, n) ELSE <<>>))

\* The list-literal arm: evaluate the inside, then pop what it added.
ListLiteral(token, ex) ==
    LET old_len == Len(ex.stack)
        after == evaluate_program(SubSeq(token, 2, Len(token) - 1), ex)
        n == Len(after.stack)
    IN IF after.status # "run" THEN after
       ELSE IF n > old_len
       THEN Push([after EXCEPT !.stack = SubSeq(@, 1, old_len)],
                 List(SubSeq(after.stack, old_len + 1, n)))
       ELSE Push(after, List(<<>>))

\* Mutant of EvalToken: the names of built-in operators are dispatched before
\* Memory is looked up.
EvalTokenBuiltinsFirst(token, ex) ==
    LET first == token[1]
        last == token[Len(token)]
    IN IF parse_f64(token).ok THEN Push(ex, Number(parse_f64(token).n))
       ELSE IF token = BoolText(TRUE) \/ token = BoolText(FALSE)
       THEN Push(ex, Bool(token = BoolText(TRUE)))
       ELSE IF first = "(" /\ last = ")"
       THEN Push(ex, String(StringEscape(SubSeq(token, 2, Len(token) - 1))))
       ELSE IF first = "[" /\ last = "]" THEN ListLiteral(token, ex)
       ELSE IF StartsWith(token, ErrorPrefix)
       THEN Push(ex, Error(RemoveAll(token, ErrorPrefix)))
       ELSE IF token \in Builtins THEN execute_command(token, ex)
       ELSE IF token \in DOMAIN ex.memory THEN Push(ex, ex.memory[token])
       ELSE IF first = "#" /\ last = "#" THEN ex
       ELSE execute_command(token, ex)

\* One turn of the token loop of evaluate_program: the literal tests in order.
EvalToken(token, ex) ==
    LET first == token[1]
        last == token[Len(token)]
    IN IF parse_f64(token).ok THEN Push(ex, Number(parse_f64(token).n))
       ELSE IF token = BoolText(TRUE) \/ token = BoolText(FALSE)
       THEN Push(ex, Bool(token = BoolText(TRUE)))
       ELSE IF first = "(" /\ last = ")"
       THEN Push(ex, String(StringEscape(SubSeq(token, 2, Len(token) - 1))))
       ELSE IF first = "[" /\ last = "]" THEN ListLiteral(token, ex)
       ELSE IF StartsWith(token, ErrorPrefix)
       THEN Push(ex, Error(RemoveAll(token, ErrorPrefix)))
       ELSE IF token \in DOMAIN ex.memory THEN Push(ex, ex.memory[token])
       ELSE IF first = "#" /\ last = "#" THEN ex
       ELSE execute_command(token, ex)

RunTokens(syntax, ex) ==
    IF syntax = <<>> THEN ex
    ELSE LET after == EvalToken(Head(syntax), ex)
         IN IF after.status = "run" THEN RunTokens(Tail(syntax), after) ELSE after

evaluate_program(code, ex) == RunTokens(analyze_syntax(code), ex)

(***************************************************************************)
(* The process: the main executor evaluates its source token by token      *)
(* (the for loop of evaluate_program); each `thread` adds an executor      *)
(* that evaluates its code the same way.  process::exit, a panic of the    *)
(* main thread and the return of main end the process with every thread.   *)
(***************************************************************************)
MaxExecs == 2

Ids == 1..MaxExecs

Main == 1

Modes == {"Script", "Debug"}

Absent ==
    [stack |-> <<>>, memory |-> EmptyMap, mode |-> "Script", status |-> "absent",
     forks |-> <<>>, routes |-> EmptyMap, printed |-> <<>>, prog |-> <<>>]

\* An executor about to evaluate `code`: its position is the token list.
Load(code, stack, memory, mode) ==
    [stack |-> stack, memory |-> memory, mode |-> mode, status |-> "run",
     forks |-> <<>>, routes |-> EmptyMap, printed |-> <<>>, prog |-> analyze_syntax(code)]

\* thread::spawn(move || executor.evaluate_program(code)) for each fork
RECURSIVE Spawned(_, _)
Spawned(es, forks) ==
    IF forks = <<>> THEN es
    ELSE LET free == {i \in Ids : es[i].status = "absent"}
             id == CHOOSE i \in free : \A j \in free : i <= j
             f == Head(forks)
         IN Spawned([es EXCEPT ![id] = Load(f.code, f.stack, f.memory, f.mode)],
                    Tail(forks))

\* Mutant of Commit: one Memory shared by all executors instead of clones.
CommitSharedMemory(es, e, r) ==
    [i \in Ids |->
        IF Spawned([es EXCEPT ![e] = [r EXCEPT !.forks = <<>>]], r.forks)[i].status = "absent"
        THEN Absent
        ELSE [Spawned([es EXCEPT ![e] = [r EXCEPT !.forks = <<>>]], r.forks)[i]
                 EXCEPT !.memory = r.memory]]

\* What executor e's turn leaves in the table of executors.
Commit(es, e, r) == Spawned([es EXCEPT ![e] = [r EXCEPT !.forks = <<>>]], r.forks)

\* The position of the server: pc "accept" is the top of the loop over
\* listener.incoming(); the others are the places of handle.
ServerOff == [pc |-> "accept", listener |-> 0, cur |-> 0, matching |-> <<>>, body |-> <<>>]

\* TcpListener::bind(address).unwrap(): every source binds the one address,
\* so a bind while another executor listens is an error and unwinds.
Bind(es, e, r) ==
    IF r.status = "serving" /\ \E i \in Ids \ {e} : es[i].status = "serving"
    THEN Panic(r)
    ELSE r

\* One turn of the token loop of evaluate_program on executor e.
Step(e) ==
    LET cur == execs[e]
        r == Bind(execs, e, EvalToken(Head(cur.prog), [cur EXCEPT !.prog = Tail(@)]))
        free == {i \in Ids : execs[i].status = "absent"}
    IN /\ alive
       /\ cur.status = "run"
       /\ cur.prog # <<>>
       /\ Cardinality(free) >= Len(r.forks)
       /\ execs' = Commit(execs, e, r)
       /\ alive' = ~(r.status = "exit" \/ (e = Main /\ r.status = "panic"))
       /\ actor' = e
       /\ sv' = IF r.status = "serving" THEN [ServerOff EXCEPT !.listener = e] ELSE sv
       /\ UNCHANGED <<start, incoming, conns>>

\* main returns when evaluate_program has run out of tokens: the process ends.
MainReturn ==
    /\ alive
    /\ execs[Main].status = "run"
    /\ execs[Main].prog = <<>>
    /\ alive' = FALSE
    /\ execs' = [execs EXCEPT ![Main].status = "done"]
    /\ actor' = Main
    /\ UNCHANGED <<start, sv, incoming, conns>>

(***************************************************************************)
(* The evaluator on its own: any stack and memory an earlier program may   *)
(* have left, then one source text.                                        *)
(***************************************************************************)
MaxDepth == 2

Vals ==
    {Number(2), String(<<"a", "b">>), Bool(TRUE), List(<<Number(1), Number(3)>>),
     Error(<<"e">>)}

Stacks(d) == UNION {[1..n -> Vals] : n \in 0..d}

BoundNames ==
    {<<"a", "d", "d">>,
     <<"5">>,
     <<"t", "r", "u", "e">>,
     <<"(", "x", ")">>,
     <<"[", "1", "]">>,
     <<"e", "r", "r", "o", "r", ":", "e">>,
     <<"#", "c", "#">>,
     <<"x">>}

Memories == {EmptyMap} \cup {MapSet(EmptyMap, n, v) : n \in BoundNames, v \in {Number(7), String(<<"v">>)}}

Configs ==
    {[stack |-> s, memory |-> EmptyMap] : s \in Stacks(MaxDepth)}
        \cup {[stack |-> s, memory |-> m] : s \in Stacks(1), m \in Memories}

Sources ==
    {<<"5">>,
     <<"t", "r", "u", "e">>,
     <<"(", "x", ")">>,
     <<"[", "1", "]">>,
     <<"e", "r", "r", "o", "r", ":", "e">>,
     <<"#", "c", "#">>,
     <<"x">>,
     <<"a", "d", "d">>,
     <<"z", "z", "z">>,
     <<"p", "o", "p">>,
     <<"c", "o", "p", "y">>,
     <<"s", "w", "a", "p">>,
     <<"c", "o", "p", "y", " ", "p", "o", "p">>,
     <<"s", "w", "a", "p", " ", "s", "w", "a", "p">>,
     <<"v", "a", "r">>,
     <<"f", "r", "e", "e">>,
     <<"s", "i", "z", "e", "-", "s", "t", "a", "c", "k">>,
     <<"t", "y", "p", "e">>,
     <<"l", "e", "n">>,
     <<"g", "e", "t">>,
     <<"s", "e", "t">>,
     <<"d", "e", "l">>,
     <<"a", "p", "p", "e", "n", "d">>,
     <<"i", "n", "s", "e", "r", "t">>,
     <<"r", "a", "n", "g", "e">>,
     <<"i", "n", "d", "e", "x">>,
     <<"r", "e", "v", "e", "r", "s", "e">>,
     <<"c", "a", "s", "t">>,
     <<"s", "u", "b">>,
     <<"n", "o", "t">>,
     <<"e", "q", "u", "a", "l">>,
     <<"c", "o", "n", "c", "a", "t">>,
     <<"[", "1", "]", " ", "5", " ", "(", "x", ")", " ", "i", "n", "s", "e", "r", "t">>,
     <<"0", " ", "3", " ", "0", " ", "r", "a", "n", "g", "e">>,
     <<"1", " ", "4", " ", "2", " ", "r", "a", "n", "g", "e">>,
     <<"7", " ", "(", "x", ")", " ", "v", "a", "r", " ", "x">>,
     <<"p", "r", "i", "n", "t">>,
     <<"(", "a", ")", " ", "p", "r", "i", "n", "t", "l", "n", " ", "5">>}

InitWith(src, c, mode) ==
    /\ execs = [i \in Ids |-> IF i = Main THEN Load(src, c.stack, c.memory, mode) ELSE Absent]
    /\ alive = TRUE
    /\ start = [src |-> src, stack |-> c.stack, memory |-> c.memory, mode |-> mode,
                hash |-> IF "hash" \in DOMAIN c THEN c.hash ELSE [i \in 1..MaxFields |-> i]]
    /\ actor = 0
    /\ sv = ServerOff
    /\ incoming = <<>>
    /\ conns = <<>>

Init == \E src \in Sources, c \in Configs, mode \in Modes : InitWith(src, c, mode)

Next ==
    \/ \E e \in Ids : Step(e)
    \/ MainReturn

Spec == Init /\ [][Next]_vars

(***************************************************************************)
(* What the claims speak of: the main executor, and whether it has run     *)
(* its whole source.                                                       *)
(***************************************************************************)
M == execs[Main]

Finished == M.prog = <<>> /\ M.status \in {"run", "done"}

Src(text) == start.src = text

Bound(name) == name \in DOMAIN start.memory

\* C1: a token is classified by the first matching test, in the order number,
\* bool, (...) string, [...] list, error: prefix, Memory binding, #...# comment,
\* command.  A token bound in Memory that matches no earlier test pushes the
\* bound value and runs no built-in (a variable `add` shadows the operator, a
\* variable `#c#` the comment); a token matching an earlier test is pushed as
\* that literal even when a variable of that name is bound.
C1_LiteralsBeforeMemoryBeforeCommands ==
    Finished =>
        /\ Src(<<"5">>) => M.stack = Append(start.stack, Number(5))
        /\ Src(<<"t", "r", "u", "e">>) => M.stack = Append(start.stack, Bool(TRUE))
        /\ Src(<<"(", "x", ")">>) => M.stack = Append(start.stack, String(<<"x">>))
        /\ Src(<<"[", "1", "]">>) => M.stack = Append(start.stack, List(<<Number(1)>>))
        /\ Src(<<"e", "r", "r", "o", "r", ":", "e">>) => M.stack = Append(start.stack, Error(<<"e">>))
        /\ \A name \in {<<"a", "d", "d">>, <<"#", "c", "#">>, <<"x">>} :
              Src(name) /\ Bound(name) =>
                  M.stack = Append(start.stack, start.memory[name])
        /\ Src(<<"#", "c", "#">>) /\ ~Bound(<<"#", "c", "#">>) => M.stack = start.stack
        /\ Src(<<"a", "d", "d">>) /\ ~Bound(<<"a", "d", "d">>) =>
              M.stack # Append(start.stack, String(<<"a", "d", "d">>))
        /\ start.src \in BoundNames \cup {<<"z", "z", "z">>} => M.memory = start.memory

C1_Witness ==
    /\ Finished
    /\ Src(<<"a", "d", "d">>)
    /\ Bound(<<"a", "d", "d">>)
    /\ Len(start.stack) = 1
    /\ M.stack = Append(start.stack, start.memory[<<"a", "d", "d">>])

\* C2: a token that is no literal, is not bound in Memory, is no comment and is
\* no built-in operator pushes exactly one String equal to the token text; the
\* entries below it and Memory are unchanged.
UnknownNames == {<<"z", "z", "z">>, <<"x">>}

C2_UnknownTokenPushesItsText ==
    \A name \in UnknownNames :
        Finished /\ Src(name) /\ ~Bound(name) =>
            /\ M.stack = Append(start.stack, String(name))
            /\ M.memory = start.memory

C2_Witness ==
    /\ Finished
    /\ Src(<<"z", "z", "z">>)
    /\ Len(start.stack) = 2
    /\ M.stack[3] = String(<<"z", "z", "z">>)

\* The operators that only pop, compute and push, with the number of operands
\* each pops.
Arity ==
    (K.c_add :> 2) @@ (K.c_sub :> 2) @@ (K.c_concat :> 2) @@ (K.c_equal :> 2)
        @@ (K.c_not :> 1) @@ (K.c_len :> 1) @@ (K.c_type :> 1) @@ (K.c_copy :> 1)
        @@ (K.c_swap :> 2) @@ (K.c_append :> 2) @@ (K.c_get :> 2) @@ (K.c_set :> 3)
        @@ (K.c_del :> 2) @@ (K.c_index :> 2) @@ (K.c_reverse :> 1) @@ (K.c_cast :> 2)
        @@ (K.c_var :> 2) @@ (K.c_free :> 1) @@ (K.c_pop :> 1) @@ (K.c_insert :> 3)
        @@ (K.c_range :> 3)

\* The operators that can unwind for an operand value (an index beyond the list,
\* a step of 0), whatever the depth of the stack: the subject of C4.
Unwinding == {K.c_insert, K.c_range}

\* The main executor as constructed, with k empty Strings under its stack.
Padded(k) ==
    [stack |-> [i \in 1..k |-> String(<<>>)] \o start.stack, memory |-> start.memory,
     mode |-> start.mode, status |-> "run", forks |-> <<>>, routes |-> EmptyMap, printed |-> <<>>,
     prog |-> <<>>]

\* C3: popping from an empty stack does not abort the evaluation: it yields the
\* empty String and leaves the stack empty.  An operator that pops n operands
\* from a stack of fewer than n entries ends as it does on that stack with the
\* missing entries supplied as empty Strings, and the evaluation goes on (for
\* `insert` and `range` it goes on unless the operand values unwind them, as
\* they do on a full stack); `add` on the empty stack pushes Number 0 and `pop`
\* on the empty stack leaves it empty.
C3_UnderflowYieldsEmptyString ==
    /\ pop_stack(M).ex.status = M.status
    /\ M.stack = <<>> => pop_stack(M) = [value |-> String(<<>>), ex |-> M]
    /\ \A op \in DOMAIN Arity :
          M.prog = <<>> /\ Src(op) /\ ~Bound(op) /\ Len(start.stack) < Arity[op] =>
              LET want == evaluate_program(op, Padded(Arity[op] - Len(start.stack)))
              IN /\ M.status \in {"run", "done", want.status}
                 /\ op \notin Unwinding => M.status \in {"run", "done"}
                 /\ M.stack = want.stack
                 /\ M.memory = want.memory
    /\ M.prog = <<>> /\ Src(K.c_add) /\ ~Bound(K.c_add) /\ start.stack = <<>> =>
          M.stack = <<Number(0)>>
    /\ M.prog = <<>> /\ Src(K.c_pop) /\ start.stack = <<>> => M.stack = <<>>

C3_Witness ==
    /\ Finished
    /\ Src(K.c_add)
    /\ ~Bound(K.c_add)
    /\ start.stack = <<>>
    /\ M.stack = <<Number(0)>>

\* The sources that end with a stack, list or memory operator other than exit.
OperatorSources ==
    (DOMAIN Arity)
        \cup {K.c_range, K.c_size_stack, <<"[", "1", "]", " ", "5", " ", "(", "x", ")", " ", "i", "n", "s", "e", "r", "t">>, <<"0", " ", "3", " ", "0", " ", "r", "a", "n", "g", "e">>,
              <<"1", " ", "4", " ", "2", " ", "r", "a", "n", "g", "e">>}

\* C4: every stack, list and memory operator other than `exit` returns control
\* to the evaluator on every stack: a failing operation pushes an Error or a
\* default and never unwinds, `range` for every step and `insert` for every
\* index included.
C4_OperatorsNeverUnwind ==
    start.src \in OperatorSources => M.status # "panic"

\* C10 as stated: from every stack, the empty one included, `copy` then `pop`
\* leaves the stack and Memory as they were.
C10_CopyPopIdentityAnyDepth ==
    Finished /\ Src(<<"c", "o", "p", "y", " ", "p", "o", "p">>) =>
        /\ M.stack = start.stack
        /\ M.memory = start.memory

\* C10 amended: from every non-empty stack, `copy` then `pop` leaves the stack
\* and Memory as they were.
C10_CopyPopIdentityNonEmpty ==
    Finished /\ Src(<<"c", "o", "p", "y", " ", "p", "o", "p">>) /\ start.stack # <<>> =>
        /\ M.stack = start.stack
        /\ M.memory = start.memory

C10_Witness ==
    /\ Finished
    /\ Src(<<"c", "o", "p", "y", " ", "p", "o", "p">>)
    /\ Len(start.stack) = 2
    /\ M.stack = start.stack

(***************************************************************************)
(* Threads: a source that forks with `thread`, parent and child then       *)
(* taking their turns in any order.                                        *)
(***************************************************************************)
ThreadSources ==
    {<<"1", " ", "(", "2", " ", "(", "x", ")", " ", "v", "a", "r", " ", "p", "o", "p", " ", "3", ")", " ", "t", "h", "r", "e", "a", "d", " ", "4", " ", "(", "y", ")", " ", "v", "a", "r", " ", "p", "o", "p">>,
     <<"(", "8", " ", "(", "x", ")", " ", "v", "a", "r", " ", "(", "y", ")", " ", "f", "r", "e", "e", ")", " ", "t", "h", "r", "e", "a", "d", " ", "(", "x", ")", " ", "f", "r", "e", "e", " ", "6", " ", "(", "y", ")", " ", "v", "a", "r">>,
     <<"5", " ", "(", "p", "o", "p", " ", "p", "o", "p", " ", "9", ")", " ", "t", "h", "r", "e", "a", "d", " ", "p", "o", "p", " ", "p", "o", "p">>,
     <<"(", "(", "7", " ", "(", "z", ")", " ", "v", "a", "r", ")", " ", "t", "h", "r", "e", "a", "d", " ", "1", ")", " ", "t", "h", "r", "e", "a", "d", " ", "2">>,
     <<"t", "h", "r", "e", "a", "d", " ", "3">>,
     <<"(", "c", "o", "p", "y", " ", "(", "x", ")", " ", "v", "a", "r", ")", " ", "t", "h", "r", "e", "a", "d", " ", "[", "1", "]", " ", "(", "x", ")", " ", "v", "a", "r">>}

ThreadConfigs ==
    {[stack |-> s, memory |-> m] :
        s \in Stacks(1),
        m \in {EmptyMap, MapSet(EmptyMap, <<"x">>, Number(7)), MapSet(EmptyMap, <<"y">>, String(<<"v">>))}}

InitThread == \E src \in ThreadSources, c \in ThreadConfigs, mode \in Modes : InitWith(src, c, mode)

SpecThread == InitThread /\ [][Next]_vars

Present(e) == execs[e].status # "absent"

\* The token executor e evaluates in this step is the command `thread`.
AtThread(e) ==
    /\ execs[e].status = "run"
    /\ execs[e].prog # <<>>
    /\ Head(execs[e].prog) = K.c_thread
    /\ K.c_thread \notin DOMAIN execs[e].memory

\* C5: `thread` forks a deep clone.  The executor spawned by a `thread` step
\* starts with the parent's stack without the code operand, the parent's
\* Memory and mode as they were at the fork, and the popped text as its
\* program; and in every step of every interleaving the stack and Memory of
\* each executor other than the one that takes the step stay as they were.
C5_ThreadForksIsolatedClone ==
    [][\A e \in Ids :
          /\ (Present(e) /\ e # actor') =>
                /\ execs'[e].stack = execs[e].stack
                /\ execs'[e].memory = execs[e].memory
          /\ (~Present(e) /\ execs'[e].status # "absent" /\ AtThread(actor')) =>
                LET parent == execs[actor']
                IN /\ execs'[e].stack = pop_stack(parent).ex.stack
                   /\ execs'[e].memory = parent.memory
                   /\ execs'[e].mode = parent.mode
                   /\ execs'[e].prog = analyze_syntax(get_string(pop_stack(parent).value))
                   /\ execs'[e].status = "run"
                   /\ execs'[actor'].stack = pop_stack(parent).ex.stack
                   /\ execs'[actor'].memory = parent.memory]_vars

\* Parent and child have both run to the end of the first source and hold
\* different stacks and Memories: x is bound in the child only, y in the
\* parent only.
C5_Witness ==
    /\ Src(<<"1", " ", "(", "2", " ", "(", "x", ")", " ", "v", "a", "r", " ", "p", "o", "p", " ", "3", ")", " ", "t", "h", "r", "e", "a", "d", " ", "4", " ", "(", "y", ")", " ", "v", "a", "r", " ", "p", "o", "p">>)
    /\ start.stack = <<>> /\ start.memory = EmptyMap
    /\ execs[2].status = "run" /\ execs[2].prog = <<>>
    /\ M.prog = <<>>
    /\ DOMAIN execs[2].memory = {<<"x">>}
    /\ DOMAIN M.memory = {<<"y">>}
    /\ execs[2].stack = <<Number(3)>>
    /\ M.stack = <<>>

(***************************************************************************)
(* Bytes and text on the wire.  A request is the text one read leaves in   *)
(* the zeroed 8192-byte buffer of handle; NUL stands for the run of zero   *)
(* bytes after it.  Codes 32..126 are the printable ASCII characters, the  *)
(* grave accent (code 96) written GRAVE.                                   *)
(***************************************************************************)
Ascii ==
    <<
      " ", "!", "\"", "#", "$", "%", "&", "'", "(", ")", "*", "+", ",", "-",
      ".", "/", "0", "1", "2", "3", "4", "5", "6", "7", "8", "9", ":", ";",
      "<", "=", ">", "?", "@", "A", "B", "C", "D", "E", "F", "G", "H", "I",
      "J", "K", "L", "M", "N", "O", "P", "Q", "R", "S", "T", "U", "V", "W",
      "X", "Y", "Z", "[", "\\", "]", "^", "_", "GRAVE", "a", "b", "c", "d", "e",
      "f", "g", "h", "i", "j", "k", "l", "m", "n", "o", "p", "q", "r", "s",
      "t", "u", "v", "w", "x", "y", "z", "{", "|", "}", "~"
    >>

NUL == "NUL"

\* The character String::from_utf8_lossy gives for a byte that is no text.
Replacement == "U+FFFD"

CharOf(b) ==
    IF b \in 32..126 THEN Ascii[b - 31]
    ELSE IF b = 0 THEN NUL
    ELSE IF b = 9 THEN "\t"
    ELSE IF b = 10 THEN "\n"
    ELSE IF b = 13 THEN "\r"
    ELSE Replacement

IndexIn(table, c) == CHOOSE i \in 1..Len(table) : table[i] = c

Member(table, c) == \E i \in 1..Len(table) : table[i] = c

\* str::trim: leading and trailing white space goes, a NUL stays.
RECURSIVE Trim(_)
Trim(s) ==
    IF s = <<>> THEN s
    ELSE IF Head(s) \in Whitespace \cup {" "} THEN Trim(Tail(s))
    ELSE IF s[Len(s)] \in Whitespace \cup {" "} THEN Trim(SubSeq(s, 1, Len(s) - 1))
    ELSE s

\* str::trim_end_matches(char::from(0))
RECURSIVE TrimEndNul(_)
TrimEndNul(s) ==
    IF s # <<>> /\ s[Len(s)] = NUL THEN TrimEndNul(SubSeq(s, 1, Len(s) - 1)) ELSE s

\* str::trim_start_matches(prefix): the prefix goes as often as it repeats.
RECURSIVE TrimStartMatches(_, _)
TrimStartMatches(s, prefix) ==
    IF prefix # <<>> /\ StartsWith(s, prefix)
    THEN TrimStartMatches(SubSeq(s, Len(prefix) + 1, Len(s)), prefix)
    ELSE s

\* str::lines: split at "\n", a "\r" before it goes too; no empty last line.
Lines(s) ==
    LET parts == SplitOn(s, "\n")
        kept == IF parts[Len(parts)] = <<>> THEN SubSeq(parts, 1, Len(parts) - 1) ELSE parts
    IN [i \in 1..Len(kept) |->
           IF kept[i] # <<>> /\ kept[i][Len(kept[i])] = "\r" /\ i < Len(parts)
           THEN SubSeq(kept[i], 1, Len(kept[i]) - 1)
           ELSE kept[i]]

HexDigits ==
    <<"0", "1", "2", "3", "4", "5", "6", "7", "8", "9", "a", "b", "c", "d", "e", "f">>

HexUpper == <<"A", "B", "C", "D", "E", "F">>

IsHex(c) == Member(HexDigits, c) \/ Member(HexUpper, c)

HexVal(c) == IF Member(HexDigits, c) THEN IndexIn(HexDigits, c) - 1 ELSE IndexIn(HexUpper, c) + 9

\* percent_decode_str(s): the bytes, "%XX" read as one byte.
RECURSIVE PercentBytes(_)
PercentBytes(s) ==
    IF s = <<>> THEN <<>>
    ELSE IF Head(s) = "%" /\ Len(s) >= 3 /\ IsHex(s[2]) /\ IsHex(s[3])
    THEN <<[byte |-> 16 * HexVal(s[2]) + HexVal(s[3])]>> \o PercentBytes(SubSeq(s, 4, Len(s)))
    ELSE <<[char |-> Head(s)]>> \o PercentBytes(Tail(s))

\* percent_decode_str(s).decode_utf8().unwrap_or_default(): a byte above 127
\* on its own is no UTF-8, and the whole text is then the empty default.
percent_decode(s) ==
    LET bytes == PercentBytes(s)
        Bad(x) == "byte" \in DOMAIN x /\ x.byte > 127
    IN IF \E i \in 1..Len(bytes) : Bad(bytes[i]) THEN <<>>
       ELSE [i \in 1..Len(bytes) |->
                IF "byte" \in DOMAIN bytes[i] THEN CharOf(bytes[i].byte) ELSE bytes[i].char]

Base64Alphabet ==
    <<
      "A", "B", "C", "D", "E", "F", "G", "H", "I", "J", "K", "L", "M", "N",
      "O", "P", "Q", "R", "S", "T", "U", "V", "W", "X", "Y", "Z", "a", "b",
      "c", "d", "e", "f", "g", "h", "i", "j", "k", "l", "m", "n", "o", "p",
      "q", "r", "s", "t", "u", "v", "w", "x", "y", "z", "0", "1", "2", "3",
      "4", "5", "6", "7", "8", "9", "+", "/"
    >>

\* base64::decode of the standard alphabet with canonical "=" padding; any
\* other text is an error.
base64_decode(s) ==
    LET pad == IF Len(s) >= 2 /\ s[Len(s)] = "=" /\ s[Len(s) - 1] = "=" THEN 2
               ELSE IF Len(s) >= 1 /\ s[Len(s)] = "=" THEN 1 ELSE 0
        n == Len(s) - pad
        val(i) == IF i <= n THEN IndexIn(Base64Alphabet, s[i]) - 1 ELSE 0
        group(q) == val(4 * q + 1) * 262144 + val(4 * q + 2) * 4096
                        + val(4 * q + 3) * 64 + val(4 * q + 4)
        count == (6 * n) \div 8
        shift(r) == IF r = 0 THEN 65536 ELSE IF r = 1 THEN 256 ELSE 1
        byte(k) == (group(k \div 3) \div shift(k % 3)) % 256
        spare == IF n % 4 = 2 THEN 65536 ELSE IF n % 4 = 3 THEN 256 ELSE 1
    IN IF \/ Len(s) % 4 # 0
          \/ \E i \in 1..n : ~Member(Base64Alphabet, s[i])
          \/ (n % 4 = 0 /\ pad # 0) \/ n % 4 = 1
          \/ (n % 4 # 0 /\ group(n \div 4) % spare # 0)
       THEN [ok |-> FALSE, bytes |-> <<>>]
       ELSE [ok |-> TRUE, bytes |-> [k \in 1..count |-> byte(k - 1)]]

\* String::from_utf8_lossy, for bytes that are ASCII or stand alone.
from_utf8_lossy(bytes) == [i \in 1..Len(bytes) |-> CharOf(bytes[i])]

(***************************************************************************)
(* Executor::handle, the reading of the request.                           *)
(***************************************************************************)
\* What String::from_utf8_lossy(&buffer) holds after the read of the text req.
Buffer(req) == req \o <<NUL>>

parse_request_line(request_line, key) ==
    LET parts == SplitOn(Trim(request_line), key)
    IN <<parts[1], IF Len(parts) >= 2 THEN parts[2] ELSE <<>>>>

\* The lines in front of the first empty line, and the lines behind it.
UntilEmpty(lines) ==
    LET stops == {i \in 1..Len(lines) : lines[i] = <<>>}
        stop == IF stops = {} THEN Len(lines) + 1
                ELSE CHOOSE i \in stops : \A j \in stops : i <= j
    IN [taken |-> SubSeq(lines, 1, stop - 1), rest |-> SubSeq(lines, stop + 1, Len(lines))]

\* percent_decode_str(..).decode_utf8().unwrap_or_default().trim().trim_end_matches(0)
BodyPiece(s) == TrimEndNul(Trim(percent_decode(s)))

RECURSIVE Concat(_)
Concat(ss) == IF ss = <<>> THEN <<>> ELSE Head(ss) \o Concat(Tail(ss))

\* The key `<METHOD> <PATH>` and the body handle takes from the request text.
ParseRequest(request_str) ==
    LET lines == Lines(request_str)
        request_line == IF lines = <<>> THEN <<>> ELSE lines[1]
        mp == parse_request_line(request_line, " ")
        pq == parse_request_line(mp[2], "?")
        headers == UntilEmpty(IF lines = <<>> THEN <<>> ELSE Tail(lines))
        content == UntilEmpty(headers.rest).taken
    IN [matching |-> JoinWith(<<mp[1], pq[1]>>, <<" ">>),
        body |-> BodyPiece(pq[2]) \o Concat([i \in 1..Len(content) |-> BodyPiece(content[i])])]

AuthPrefix == <<"A", "u", "t", "h", "o", "r", "i", "z", "a", "t", "i", "o", "n", ":", " ", "B", "a", "s", "i", "c", " ">>

\* str::splitn(2, ':'): cut at the first colon only.
SplitN2(s, ch) ==
    LET parts == SplitOn(s, ch)
    IN IF Len(parts) = 1 THEN parts
       ELSE <<parts[1], SubSeq(s, Len(parts[1]) + 2, Len(s))>>

\* The for loop of authenticate over the lines of the request.
RECURSIVE AuthScan(_, _)
AuthScan(lines, database) ==
    IF lines = <<>> THEN [is_auth |-> FALSE, user |-> <<>>, pass |-> <<>>]
    ELSE LET line == Head(lines)
             encoded_credentials == TrimStartMatches(line, AuthPrefix)
             decoded_credentials == base64_decode(encoded_credentials).bytes
             parts == SplitN2(from_utf8_lossy(decoded_credentials), ":")
         IN IF StartsWith(line, AuthPrefix) /\ Len(parts) = 2 /\ parts[1] \in DOMAIN database
            THEN [is_auth |-> parts[2] = database[parts[1]], user |-> parts[1], pass |-> parts[2]]
            ELSE AuthScan(Tail(lines), database)

authenticate(request_str, database) == AuthScan(Lines(request_str), database)

\* The user database of handle: database.insert(i[0], i[1]) for each entry;
\* an entry with fewer than two items is an index out of bounds.
RECURSIVE Database(_, _)
Database(entries, database) ==
    IF entries = <<>> THEN [ok |-> TRUE, database |-> database]
    ELSE LET i == get_list(Head(entries))
         IN IF Len(i) < 2 THEN [ok |-> FALSE, database |-> database]
            ELSE Database(Tail(entries), MapSet(database, get_string(i[1]), get_string(i[2])))

(***************************************************************************)
(* Executor::handle, the responses it formats.                             *)
(***************************************************************************)
CRLF == <<"\r", "\n">>

Response401 ==
    <<"H", "T", "T", "P", "/", "1", ".", "1", " ", "4", "0", "1", " ", "U", "n", "a", "u", "t", "h", "o", "r", "i", "z", "e", "d", "\r", "\n", "W", "W", "W", "-", "A", "u", "t", "h", "e", "n", "t", "i", "c", "a", "t", "e", ":", " ", "B", "a", "s", "i", "c", " ", "r", "e", "a", "l", "m", "=", "\"", "R", "e", "s", "t", "r", "i", "c", "t", "e", "d", " ", "a", "r", "e", "a", "\"", "\r", "\n", "C", "o", "n", "t", "e", "n", "t", "-", "T", "y", "p", "e", ":", " ", "t", "e", "x", "t", "/", "p", "l", "a", "i", "n", "\r", "\n", "\r", "\n", "U", "n", "a", "u", "t", "h", "o", "r", "i", "z", "e", "d">>

Format200(body, mime) ==
    <<"H", "T", "T", "P", "/", "1", ".", "1", " ", "2", "0", "0", " ", "O", "K", "\r", "\n", "C", "o", "n", "t", "e", "n", "t", "-", "T", "y", "p", "e", ":", " ">> \o mime \o <<";", " ", "c", "h", "a", "r", "s", "e", "t", "=", "u", "t", "f", "-", "8", "\r", "\n", "\r", "\n">> \o body

\* The head written in front of the bytes of a Binary response.
Format200Binary(mime) == <<"H", "T", "T", "P", "/", "1", ".", "1", " ", "2", "0", "0", " ", "O", "K", "\r", "\n", "C", "o", "n", "t", "e", "n", "t", "-", "T", "y", "p", "e", ":", " ">> \o mime \o <<";", "\r", "\n", "\r", "\n">>

Format404(body, mime) ==
    <<"H", "T", "T", "P", "/", "1", ".", "1", " ", "4", "0", "4", " ", "N", "O", "T", " ", "F", "O", "U", "N", "D", "\r", "\n", "C", "o", "n", "t", "e", "n", "t", "-", "T", "y", "p", "e", ":", " ">> \o mime \o <<";", " ", "c", "h", "a", "r", "s", "e", "t", "=", "u", "t", "f", "-", "8", "\r", "\n", "\r", "\n">> \o body

(***************************************************************************)
(* Executor::handle, place by place.  Each phase is what handle does to    *)
(* the executor from one place to the next: ex the executor afterwards,    *)
(* pc the next place ("accept" when handle returns), writes the texts      *)
(* handed to stream.write.                                                 *)
(***************************************************************************)
\* Mutant of AuthChecked: the 401 is written but handle does not return.
AuthCheckedNoReturn(evaluated, request_str) ==
    LET auth == pop_stack(evaluated)
        made == Database(get_list(auth.value), EmptyMap)
        checked == authenticate(request_str, made.database)
        user_data == List(<<String(checked.user), String(checked.pass)>>)
    IN IF evaluated.status # "run"
       THEN [ex |-> evaluated, pc |-> "auth", writes |-> <<>>]
       ELSE IF ~made.ok
       THEN [ex |-> Panic(auth.ex), pc |-> "auth", writes |-> <<>>, db |-> auth.value]
       ELSE [ex |-> Push(auth.ex, user_data), pc |-> "run",
             writes |-> IF checked.is_auth THEN <<>> ELSE <<Response401>>,
             db |-> auth.value]

\* Mutant of AuthChecked: on success nothing is pushed for the handler.
AuthCheckedNoPair(evaluated, request_str) ==
    LET auth == pop_stack(evaluated)
        made == Database(get_list(auth.value), EmptyMap)
        checked == authenticate(request_str, made.database)
    IN IF evaluated.status # "run"
       THEN [ex |-> evaluated, pc |-> "auth", writes |-> <<>>]
       ELSE IF ~made.ok
       THEN [ex |-> Panic(auth.ex), pc |-> "auth", writes |-> <<>>, db |-> auth.value]
       ELSE IF ~checked.is_auth
       THEN [ex |-> auth.ex, pc |-> "accept", writes |-> <<Response401>>, db |-> auth.value]
       ELSE [ex |-> auth.ex, pc |-> "run", writes |-> <<>>, db |-> auth.value]

\* The auth branch: evaluate the auth expression, build the database,
\* authenticate; 401 and return on failure, else push [user, pass].
AuthChecked(evaluated, request_str) ==
    LET auth == pop_stack(evaluated)
        made == Database(get_list(auth.value), EmptyMap)
        checked == authenticate(request_str, made.database)
        user_data == List(<<String(checked.user), String(checked.pass)>>)
    IN IF evaluated.status # "run"
       THEN [ex |-> evaluated, pc |-> "auth", writes |-> <<>>]
       ELSE IF ~made.ok
       THEN [ex |-> Panic(auth.ex), pc |-> "auth", writes |-> <<>>, db |-> auth.value]
       ELSE IF ~checked.is_auth
       THEN [ex |-> auth.ex, pc |-> "accept", writes |-> <<Response401>>, db |-> auth.value]
       ELSE [ex |-> Push(auth.ex, user_data), pc |-> "run", writes |-> <<>>, db |-> auth.value]

AuthPhase(ex, route, request_str) ==
    AuthChecked(evaluate_program(route.auth_data, ex), request_str)

\* The handler has run: after is the executor it leaves, seen the stack
\* and Memory it started with.
HandlerRan(matching, after, seen) ==
    [ex |-> after, pc |-> "respond", writes |-> <<>>, ran |-> <<matching>>,
     left |-> after.stack, seen |-> seen, kept |-> after.memory]

\* Push the request body and evaluate the handler code of the route.
RunPhase(ex, matching, route, body) ==
    HandlerRan(matching, evaluate_program(route.code, Push(ex, String(body))),
               [stack |-> Push(ex, String(body)).stack, memory |-> ex.memory])

\* The bytes of a Binary response on the wire.
WireBytes(bytes) == [i \in 1..Len(bytes) |-> CharOf(bytes[i])]

\* Mutant of RespondPhase: the two format arguments taken in the other order.
RespondPhaseSwapped(ex) ==
    LET mime == pop_stack(ex)
        response_value == pop_stack(mime.ex)
    IN [ex |-> response_value.ex, pc |-> "accept",
        writes |-> <<Format200(get_string(response_value.value), get_string(mime.value))>>]

\* Pop the response value and the MIME and write 200 OK.  The Binary branch
\* does not return: the text response is written after it, each with a
\* pop of its own for the Content-Type.
RespondPhase(ex) ==
    LET response_value == pop_stack(ex)
        binary == response_value.value.t = "Binary"
        first == pop_stack(response_value.ex)
        rest == IF binary THEN first.ex ELSE response_value.ex
        second == pop_stack(rest)
    IN [ex |-> second.ex, pc |-> "accept",
        writes |->
            (IF binary
             THEN <<Format200Binary(get_string(first.value))
                       \o WireBytes(response_value.value.bytes)>>
             ELSE <<>>)
            \o <<Format200(get_string(response_value.value), get_string(second.value))>>]

\* Mutant of NotFoundWrite: the literal is served whatever the table defines.
NotFoundWriteLiteral(defined, after) ==
    LET rest == IF defined THEN pop_stack(after).ex ELSE after
        mime == pop_stack(rest)
    IN [ex |-> mime.ex, pc |-> "accept",
        writes |-> <<Format404(Txt.literal404, get_string(mime.value))>>,
        ran |-> IF defined THEN <<Txt.not_found>> ELSE <<>>,
        left |-> after.stack]

\* No route for the key: the `not-found` handler when the table has one,
\* the literal otherwise, then a pop for the Content-Type.
NotFoundWrite(defined, after) ==
    LET text == pop_stack(after)
        rest == IF defined THEN text.ex ELSE after
        mime == pop_stack(rest)
    IN IF after.status # "run"
       THEN [ex |-> after, pc |-> "notfound", writes |-> <<>>, ran |-> <<Txt.not_found>>]
       ELSE [ex |-> mime.ex, pc |-> "accept",
             writes |-> <<Format404(IF defined THEN get_string(text.value) ELSE Txt.literal404,
                                    get_string(mime.value))>>,
             ran |-> IF defined THEN <<Txt.not_found>> ELSE <<>>,
             left |-> after.stack]

NotFoundPhase(ex, routes) ==
    IF Txt.not_found \in DOMAIN routes
    THEN NotFoundWrite(TRUE, evaluate_program(routes[Txt.not_found].code, ex))
    ELSE NotFoundWrite(FALSE, ex)

(***************************************************************************)
(* The server: clients connect, the listener takes the connections one by  *)
(* one in the loop of Executor::server.  A connection is the text its      *)
(* read returns and what the network does to it (io).                      *)
(***************************************************************************)
MaxConns == 2

NewConn(req, io) ==
    [req |-> req, io |-> io, state |-> "queued", trace |-> <<>>, out |-> <<>>,
     ran |-> <<>>, matching |-> <<>>, db |-> String(<<>>), left |-> <<>>,
     seen |-> [stack |-> <<>>, memory |-> EmptyMap], kept |-> EmptyMap,
     entry |-> <<>>, final |-> <<>>]

Listening(e) == alive /\ execs[e].status = "serving" /\ sv.listener = e

At(e, pc) == Listening(e) /\ sv.pc = pc

\* Mutant of Running: every call of handle starts on an empty Memory.
RunningFresh(ex) == [ex EXCEPT !.status = "run", !.memory = EmptyMap]

\* The executor as handle finds it, evaluating again.
Running(ex) == [ex EXCEPT !.status = "run"]

\* What a phase leaves: the executor (an evaluation that unwound, exited or
\* a write that failed ends the listener: write(..).unwrap()), the threads
\* it spawned, the responses on the connection.
Apply(e, res, event) ==
    LET conn == conns[sv.cur]
        refused == res.writes # <<>> /\ conn.io = "write_err"
        ended == IF res.ex.status = "serving" \/ (res.ex.status = "run" /\ refused)
                 THEN Panic(res.ex)
                 ELSE res.ex
        ok == ended.status = "run"
        free == {i \in Ids : execs[i].status = "absent"}
    IN /\ Cardinality(free) >= Len(ended.forks)
       /\ execs' = Commit(execs, e, IF ok THEN [ended EXCEPT !.status = "serving"] ELSE ended)
       /\ alive' = ~(ended.status = "exit" \/ (e = Main /\ ended.status = "panic"))
       /\ actor' = e
       /\ sv' = [sv EXCEPT !.pc = IF ok THEN res.pc ELSE "down"]
       /\ incoming' = IF ok THEN incoming ELSE <<>>
       /\ conns' = [conns EXCEPT ![sv.cur] =
             [@ EXCEPT !.trace = Append(@, event),
                       !.out = IF refused THEN @ ELSE @ \o res.writes,
                       !.ran = IF "ran" \in DOMAIN res THEN @ \o res.ran ELSE @,
                       !.db = IF "db" \in DOMAIN res THEN res.db ELSE @,
                       !.left = IF "left" \in DOMAIN res THEN res.left ELSE @,
                       !.seen = IF "seen" \in DOMAIN res THEN res.seen ELSE @,
                       !.kept = IF "kept" \in DOMAIN res THEN res.kept ELSE @,
                       !.final = IF ok /\ res.pc = "accept" THEN ended.stack ELSE @,
                       !.state = IF ~ok THEN "aborted"
                                 ELSE IF res.pc = "accept" THEN "responded"
                                 ELSE @]]
       /\ UNCHANGED start

\* A client connects and sends req; the connection waits in the backlog.
Connect(req, io) ==
    /\ \E e \in Ids : Listening(e)
    /\ Len(conns) < MaxConns
    /\ conns' = Append(conns, NewConn(req, io))
    /\ incoming' = Append(incoming, Len(conns) + 1)
    /\ actor' = 0
    /\ UNCHANGED <<execs, alive, start, sv>>

\* Mutant of InLoop: the loop takes the next connection from any place.
InLoopAnywhere(e) == Listening(e) /\ sv.pc # "down"

\* The listener is at the top of the loop, between two calls of handle.
InLoop(e) == At(e, "accept")

\* for stream in listener.incoming(): Ok(stream) => self.handle(stream, ..)
Accept(e) ==
    /\ InLoop(e)
    /\ incoming # <<>>
    /\ conns[Head(incoming)].io # "accept_err"
    /\ sv' = [sv EXCEPT !.pc = "read", !.cur = Head(incoming)]
    /\ incoming' = Tail(incoming)
    /\ conns' = [conns EXCEPT ![Head(incoming)] =
                    [@ EXCEPT !.state = "handling", !.trace = <<"accept">>,
                              !.entry = execs[e].stack]]
    /\ actor' = e
    /\ UNCHANGED <<execs, alive, start>>

\* Err(e) => println!("Error: {}", e): the loop goes on.
AcceptError(e) ==
    /\ InLoop(e)
    /\ incoming # <<>>
    /\ conns[Head(incoming)].io = "accept_err"
    /\ incoming' = Tail(incoming)
    /\ conns' = [conns EXCEPT ![Head(incoming)].state = "refused"]
    /\ actor' = e
    /\ UNCHANGED <<execs, alive, start, sv>>

\* stream.read(&mut buffer).unwrap(), the parsing, routes.get(&matching)
Match(e) ==
    LET conn == conns[sv.cur]
        request == ParseRequest(Buffer(conn.req))
        routes == execs[e].routes
        next == IF request.matching \notin DOMAIN routes THEN "notfound"
                ELSE IF routes[request.matching].auth THEN "auth"
                ELSE "run"
    IN /\ At(e, "read")
       /\ IF conn.io = "read_err"
          THEN /\ Apply(e, [ex |-> Panic(Running(execs[e])), pc |-> "read", writes |-> <<>>],
                        "read")
          ELSE /\ sv' = [sv EXCEPT !.pc = next, !.matching = request.matching,
                                   !.body = request.body]
               /\ conns' = [conns EXCEPT ![sv.cur] =
                               [@ EXCEPT !.trace = Append(@, "match"),
                                         !.matching = request.matching]]
               /\ actor' = e
               /\ UNCHANGED <<execs, alive, start, incoming>>

Auth(e) ==
    /\ At(e, "auth")
    /\ Apply(e, AuthPhase(Running(execs[e]), execs[e].routes[sv.matching],
                          Buffer(conns[sv.cur].req)), "auth")

Run(e) ==
    /\ At(e, "run")
    /\ Apply(e, RunPhase(Running(execs[e]), sv.matching, execs[e].routes[sv.matching],
                         sv.body), "run")

Respond(e) ==
    /\ At(e, "respond")
    /\ Apply(e, RespondPhase(Running(execs[e])), "respond")

NotFound(e) ==
    /\ At(e, "notfound")
    /\ Apply(e, NotFoundPhase(Running(execs[e]), execs[e].routes), "notfound")

(***************************************************************************)
(* Server programs and the requests sent to them.                          *)
(***************************************************************************)
SiteSource ==
    <<"(", "1", "2", "7", ".", "0", ".", "0", ".", "1", ":", "8", "0", "8", "0", ")", " ", "[", " ", "[", "[", "(", "G", "E", "T", " ", "/", ")", "]", " ", "(", "(", "t", "e", "x", "t", "/", "h", "t", "m", "l", ")", " ", "(", "<", "h", "1", ">", "h", "i", "<", "/", "h", "1", ">", ")", ")", "]", " ", "[", "[", "(", "G", "E", "T", " ", "/", "s", ")", " ", "(", "a", "u", "t", "h", ")", " ", "(", "[", "[", "(", "u", ")", " ", "(", "p", ")", "]", " ", "[", "(", "u", ")", " ", "(", "q", ")", "]", "]", ")", "]", " ", "(", "(", "t", "e", "x", "t", "/", "p", "l", "a", "i", "n", ")", " ", "(", "o", "k", ")", ")", "]", " ", "[", "[", "(", "G", "E", "T", " ", "/", "n", ")", "]", " ", "(", "(", "a", "/", "b", ")", " ", "6", " ", "7", " ", "m", "u", "l", ")", "]", " ", "[", "[", "(", "P", "O", "S", "T", " ", "/", "e", ")", "]", " ", "(", "(", "t", "e", "x", "t", "/", "p", "l", "a", "i", "n", ")", " ", "s", "w", "a", "p", ")", "]", " ", "[", "[", "(", "G", "E", "T", " ", "/", "x", ")", "]", " ", "(", "0", " ", "e", "x", "i", "t", ")", "]", " ", "]", " ", "s", "t", "a", "r", "t", "-", "s", "e", "r", "v", "e", "r">>

CustomSource ==
    <<"(", "1", "2", "7", ".", "0", ".", "0", ".", "1", ":", "8", "0", "8", "0", ")", " ", "[", " ", "[", "[", "(", "n", "o", "t", "-", "f", "o", "u", "n", "d", ")", "]", " ", "(", "(", "t", "e", "x", "t", "/", "p", "l", "a", "i", "n", ")", " ", "(", "g", "o", "n", "e", ")", ")", "]", " ", "[", "[", "(", "G", "E", "T", " ", "/", "s", ")", " ", "(", "a", "u", "t", "h", ")", " ", "(", "[", "[", "(", "a", "b", ")", " ", "(", "c", ")", "]", "]", ")", "]", " ", "(", "(", "t", "e", "x", "t", "/", "c", "s", "s", ")", " ", "(", "i", "n", ")", ")", "]", " ", "[", "[", "(", "G", "E", "T", " ", "/", "p", ")", "]", " ", "(", "[", "1", "]", " ", "5", " ", "(", "x", ")", " ", "i", "n", "s", "e", "r", "t", ")", "]", " ", "[", "[", "(", "G", "E", "T", " ", "/", "b", "a", "d", ")", " ", "(", "a", "u", "t", "h", ")", " ", "(", "(", "u", ")", ")", "]", " ", "(", "(", "t", ")", " ", "(", "n", "e", "v", "e", "r", ")", ")", "]", " ", "]", " ", "s", "t", "a", "r", "t", "-", "s", "e", "r", "v", "e", "r">>

ThreadedSource ==
    <<"(", "(", "1", "2", "7", ".", "0", ".", "0", ".", "1", ":", "8", "0", "8", "0", ")", " ", "[", "[", "[", "(", "G", "E", "T", " ", "/", ")", "]", " ", "(", "(", "t", "/", "p", ")", " ", "(", "h", "i", ")", ")", "]", "]", " ", "s", "t", "a", "r", "t", "-", "s", "e", "r", "v", "e", "r", ")", " ", "t", "h", "r", "e", "a", "d">>

\* The route list whose handler is written as a list literal.
HelloSource ==
    <<"(", "1", "2", "7", ".", "0", ".", "0", ".", "1", ":", "8", "0", "8", "0", ")", " ", "[", "[", "[", "(", "G", "E", "T", " ", "/", ")", " ", "(", "h", "t", "m", "l", ")", "]", " ", "[", "(", "h", "e", "l", "l", "o", ")", " ", "p", "r", "i", "n", "t", " ", "(", "h", "e", "l", "l", "o", ")", "]", "]", "]", " ", "s", "t", "a", "r", "t", "-", "s", "e", "r", "v", "e", "r">>

\* A variable bound before the server starts, and handlers that read it,
\* bind it and free it.
PersistSource ==
    <<"7", " ", "(", "v", ")", " ", "v", "a", "r", " ", "(", "1", "2", "7", ".", "0", ".", "0", ".", "1", ":", "8", "0", "8", "0", ")", " ", "[", " ", "[", "[", "(", "G", "E", "T", " ", "/", "r", ")", "]", " ", "(", "(", "t", ")", " ", "v", ")", "]", " ", "[", "[", "(", "G", "E", "T", " ", "/", "w", ")", "]", " ", "(", "(", "t", ")", " ", "9", " ", "(", "v", ")", " ", "v", "a", "r", " ", "(", "w", ")", ")", "]", " ", "[", "[", "(", "G", "E", "T", " ", "/", "f", ")", "]", " ", "(", "(", "t", ")", " ", "(", "v", ")", " ", "f", "r", "e", "e", " ", "(", "f", ")", ")", "]", " ", "]", " ", "s", "t", "a", "r", "t", "-", "s", "e", "r", "v", "e", "r">>

\* An entry left on the stack before the server starts, a handler that
\* answers the Binary bound to img, a handler that leaves the body alone.
StockedSource ==
    <<"(", "k", "e", "e", "p", ")", " ", "(", "1", "2", "7", ".", "0", ".", "0", ".", "1", ":", "8", "0", "8", "0", ")", " ", "[", " ", "[", "[", "(", "G", "E", "T", " ", "/", "b", ")", "]", " ", "(", "(", "i", "m", "a", "g", "e", "/", "p", "n", "g", ")", " ", "i", "m", "g", ")", "]", " ", "[", "[", "(", "G", "E", "T", " ", "/", "t", ")", "]", " ", "(", "(", "t", ")", " ", "(", "x", ")", ")", "]", " ", "]", " ", "s", "t", "a", "r", "t", "-", "s", "e", "r", "v", "e", "r">>

\* What an earlier program left in Memory for StockedSource: a file read.
StockedMemory == MapSet(EmptyMap, <<"i", "m", "g">>, Binary(<<65, 0>>))

ServerSources ==
    {SiteSource, CustomSource, ThreadedSource, HelloSource, PersistSource, StockedSource}

Req ==
    [home |-> <<"G", "E", "T", " ", "/", " ", "H", "T", "T", "P", "/", "1", ".", "1", "\r", "\n", "H", "o", "s", "t", ":", " ", "x", "\r", "\n", "\r", "\n">>,
     bare |-> <<"G", "E", "T", " ", "/", "s", " ", "H", "T", "T", "P", "/", "1", ".", "1", "\r", "\n", "\r", "\n">>,
     u_q |-> <<"G", "E", "T", " ", "/", "s", " ", "H", "T", "T", "P", "/", "1", ".", "1", "\r", "\n", "A", "u", "t", "h", "o", "r", "i", "z", "a", "t", "i", "o", "n", ":", " ", "B", "a", "s", "i", "c", " ", "d", "T", "p", "x", "\r", "\n", "\r", "\n">>,
     u_p |-> <<"G", "E", "T", " ", "/", "s", " ", "H", "T", "T", "P", "/", "1", ".", "1", "\r", "\n", "A", "u", "t", "h", "o", "r", "i", "z", "a", "t", "i", "o", "n", ":", " ", "B", "a", "s", "i", "c", " ", "d", "T", "p", "w", "\r", "\n", "\r", "\n">>,
     u_z_then_u_q |-> <<"G", "E", "T", " ", "/", "s", " ", "H", "T", "T", "P", "/", "1", ".", "1", "\r", "\n", "A", "u", "t", "h", "o", "r", "i", "z", "a", "t", "i", "o", "n", ":", " ", "B", "a", "s", "i", "c", " ", "d", "T", "p", "6", "\r", "\n", "A", "u", "t", "h", "o", "r", "i", "z", "a", "t", "i", "o", "n", ":", " ", "B", "a", "s", "i", "c", " ", "d", "T", "p", "x", "\r", "\n", "\r", "\n">>,
     x_p_then_u_q |-> <<"G", "E", "T", " ", "/", "s", " ", "H", "T", "T", "P", "/", "1", ".", "1", "\r", "\n", "A", "u", "t", "h", "o", "r", "i", "z", "a", "t", "i", "o", "n", ":", " ", "B", "a", "s", "i", "c", " ", "e", "D", "p", "w", "\r", "\n", "A", "u", "t", "h", "o", "r", "i", "z", "a", "t", "i", "o", "n", ":", " ", "B", "a", "s", "i", "c", " ", "d", "T", "p", "x", "\r", "\n", "\r", "\n">>,
     ab_c |-> <<"G", "E", "T", " ", "/", "s", " ", "H", "T", "T", "P", "/", "1", ".", "1", "\r", "\n", "A", "u", "t", "h", "o", "r", "i", "z", "a", "t", "i", "o", "n", ":", " ", "B", "a", "s", "i", "c", " ", "Y", "W", "I", "6", "Y", "w", "=", "=", "\r", "\n", "\r", "\n">>,
     in_body |-> <<"G", "E", "T", " ", "/", "s", " ", "H", "T", "T", "P", "/", "1", ".", "1", "\r", "\n", "\r", "\n", "A", "u", "t", "h", "o", "r", "i", "z", "a", "t", "i", "o", "n", ":", " ", "B", "a", "s", "i", "c", " ", "d", "T", "p", "x", "\r", "\n">>,
     unknown |-> <<"G", "E", "T", " ", "/", "z", "z", " ", "H", "T", "T", "P", "/", "1", ".", "1", "\r", "\n", "\r", "\n">>,
     echo |-> <<"P", "O", "S", "T", " ", "/", "e", "?", "a", "%", "2", "0", "b", " ", "H", "T", "T", "P", "/", "1", ".", "1", "\r", "\n", "\r", "\n", "c", "=", "d">>,
     number |-> <<"G", "E", "T", " ", "/", "n", " ", "H", "T", "T", "P", "/", "1", ".", "1", "\r", "\n", "\r", "\n">>,
     exit |-> <<"G", "E", "T", " ", "/", "x", " ", "H", "T", "T", "P", "/", "1", ".", "1", "\r", "\n", "\r", "\n">>,
     insert |-> <<"G", "E", "T", " ", "/", "p", " ", "H", "T", "T", "P", "/", "1", ".", "1", "\r", "\n", "\r", "\n">>,
     read |-> <<"G", "E", "T", " ", "/", "r", " ", "H", "T", "T", "P", "/", "1", ".", "1", "\r", "\n", "\r", "\n">>,
     write |-> <<"G", "E", "T", " ", "/", "w", " ", "H", "T", "T", "P", "/", "1", ".", "1", "\r", "\n", "\r", "\n">>,
     forget |-> <<"G", "E", "T", " ", "/", "f", " ", "H", "T", "T", "P", "/", "1", ".", "1", "\r", "\n", "\r", "\n">>,
     binary |-> <<"G", "E", "T", " ", "/", "b", " ", "H", "T", "T", "P", "/", "1", ".", "1", "\r", "\n", "\r", "\n">>,
     text_body |-> <<"G", "E", "T", " ", "/", "t", " ", "H", "T", "T", "P", "/", "1", ".", "1", "\r", "\n", "\r", "\n", "z", "z">>,
     bad |-> <<"G", "E", "T", " ", "/", "b", "a", "d", " ", "H", "T", "T", "P", "/", "1", ".", "1", "\r", "\n", "\r", "\n">>]

\* The requests clients send to each program: its routes, with and without
\* credentials, and a path it does not serve.
Requests(src) ==
    IF src = SiteSource
    THEN {Req.home, Req.bare, Req.u_q, Req.u_p, Req.u_z_then_u_q, Req.x_p_then_u_q,
          Req.in_body, Req.unknown, Req.echo, Req.number, Req.exit}
    ELSE IF src = CustomSource
    THEN {Req.bare, Req.ab_c, Req.u_q, Req.unknown, Req.insert, Req.bad}
    ELSE IF src = PersistSource
    THEN {Req.read, Req.write, Req.forget, Req.unknown}
    ELSE IF src = StockedSource
    THEN {Req.binary, Req.text_body, Req.unknown}
    ELSE {Req.home, Req.unknown}

\* What the network may do to a connection.
Arrivals(src) ==
    {[req |-> r, io |-> "ok"] : r \in Requests(src)}
        \cup {[req |-> Req.home, io |-> f] : f \in {"accept_err", "read_err", "write_err"}}

InitServer ==
    \E src \in ServerSources :
        InitWith(src, [stack |-> <<>>,
                       memory |-> IF src = StockedSource THEN StockedMemory ELSE EmptyMap],
                 "Script")

NextServer ==
    \/ \E e \in Ids : Step(e)
    \/ MainReturn
    \/ \E a \in Arrivals(start.src) : Connect(a.req, a.io)
    \/ \E e \in Ids : Accept(e)
    \/ \E e \in Ids : AcceptError(e)
    \/ \E e \in Ids : Match(e)
    \/ \E e \in Ids : Auth(e)
    \/ \E e \in Ids : Run(e)
    \/ \E e \in Ids : Respond(e)
    \/ \E e \in Ids : NotFound(e)

SpecServer == InitServer /\ [][NextServer]_vars

(***************************************************************************)
(* The claims about the server.                                            *)
(***************************************************************************)
ConnIds == 1..Len(conns)

\* The route table of the listener.
Table == execs[sv.listener].routes

Did(c, event) == Member(c.trace, event)

EndsWith(s, suffix) ==
    Len(s) >= Len(suffix) /\ SubSeq(s, Len(s) - Len(suffix) + 1, Len(s)) = suffix

\* C6: the server handles requests strictly one at a time.  In every
\* reachable state at most one connection is between accept and response,
\* and a connection is accepted (so its auth expression and handler can
\* start) only when every connection that arrived before it has had its
\* response written or was never handed to handle (a failed accept).
C6_OneRequestAtATime ==
    /\ Cardinality({i \in ConnIds : conns[i].state = "handling"}) <= 1
    /\ \A i, j \in ConnIds :
          (i < j /\ (conns[j].trace # <<>> \/ conns[j].ran # <<>>)) =>
              \/ conns[i].state = "responded" /\ conns[i].out # <<>>
              \/ conns[i].state = "refused" /\ conns[i].trace = <<>>

\* A second connection waits in the backlog while the handler of the first
\* has run and its response is not yet written.
C6_Witness ==
    /\ Len(conns) = 2
    /\ conns[1].state = "handling" /\ conns[1].ran # <<>> /\ conns[1].out = <<>>
    /\ conns[2].state = "queued"
    /\ incoming = <<2>>

\* C7: for a request whose key is registered without auth and whose handler
\* leaves a MIME String and above it a response value that is not Binary,
\* the dispatcher goes on to respond, and what it writes on a connection that
\* takes the write is the one text `HTTP/1.1 200 OK`, `Content-Type: <mime>;
\* charset=utf-8`, an empty line and the string coercion of the value.
C7_RegisteredRouteAnswers200 ==
    \A i \in ConnIds :
        LET c == conns[i]
            n == Len(c.left)
        IN (/\ Did(c, "run")
            /\ c.state # "aborted" \/ Did(c, "respond")
            /\ c.matching \in DOMAIN Table
            /\ ~Table[c.matching].auth
            /\ n >= 2
            /\ c.left[n].t # "Binary"
            /\ c.left[n - 1].t = "String") =>
               /\ ~Did(c, "respond") => (sv.cur = i /\ sv.pc = "respond" /\ c.out = <<>>)
               /\ (Did(c, "respond") /\ c.io = "ok") =>
                     /\ c.state = "responded"
                     /\ c.out = <<<<"H", "T", "T", "P", "/", "1", ".", "1", " ", "2", "0", "0", " ", "O", "K", "\r", "\n", "C", "o", "n", "t", "e", "n", "t", "-", "T", "y", "p", "e", ":", " ">> \o c.left[n - 1].s
                                    \o <<";", " ", "c", "h", "a", "r", "s", "e", "t", "=", "u", "t", "f", "-", "8", "\r", "\n", "\r", "\n">> \o get_string(c.left[n])>>
               /\ (Did(c, "respond") /\ c.io # "ok") => c.out = <<>>

\* `GET /n` is answered with the Number 42 the handler computed, as text.
C7_Witness ==
    \E i \in ConnIds :
        /\ Src(SiteSource)
        /\ conns[i].req = Req.number
        /\ conns[i].state = "responded"
        /\ conns[i].left = <<String(<<>>), String(<<"a", "/", "b">>), Number(42)>>
        /\ conns[i].out = <<<<"H", "T", "T", "P", "/", "1", ".", "1", " ", "2", "0", "0", " ", "O", "K", "\r", "\n", "C", "o", "n", "t", "e", "n", "t", "-", "T", "y", "p", "e", ":", " ", "a", "/", "b", ";", " ", "c", "h", "a", "r", "s", "e", "t", "=", "u", "t", "f", "-", "8", "\r", "\n", "\r", "\n", "4", "2">>>>

\* The [user, password] pairs the auth expression of the route listed.
Listed(db) ==
    {<<get_string(get_list(db.l[k])[1]), get_string(get_list(db.l[k])[2])>> :
        k \in {k \in 1..Len(db.l) : Len(get_list(db.l[k])) >= 2}}

WellFormed(db) ==
    db.t = "List" /\ \A k \in 1..Len(db.l) : Len(get_list(db.l[k])) >= 2

\* The password the database holds for a user: the last one listed.
Holds(db, user, pass) ==
    \E k \in 1..Len(db.l) :
        /\ <<get_string(get_list(db.l[k])[1]), get_string(get_list(db.l[k])[2])>> = <<user, pass>>
        /\ \A m \in (k + 1)..Len(db.l) : get_string(get_list(db.l[m])[1]) # user

\* The credentials of the lines `Authorization: Basic <base64 of user:pass>`
\* of a request, in the order of the lines.
Credentials(req) ==
    LET lines == Lines(Buffer(req))
        Decoded(line) ==
            SplitN2(from_utf8_lossy(base64_decode(TrimStartMatches(line, AuthPrefix)).bytes), ":")
        carrying == {k \in 1..Len(lines) :
                        StartsWith(lines[k], AuthPrefix) /\ Len(Decoded(lines[k])) = 2}
    IN [k \in carrying |-> Decoded(lines[k])]

\* The first credentials of the request whose user the database knows carry
\* that user's password.
Decisive(req, db) ==
    LET creds == Credentials(req)
        known == {k \in DOMAIN creds : \E p \in Listed(db) : p[1] = creds[k][1]}
    IN \E k \in known :
          /\ \A m \in known : k <= m
          /\ Holds(db, creds[k][1], creds[k][2])

AuthOrder == <<"accept", "match", "auth", "run", "respond">>

IsPrefix(s, t) == Len(s) <= Len(t) /\ SubSeq(t, 1, Len(s)) = s

Status200 == <<"H", "T", "T", "P", "/", "1", ".", "1", " ", "2", "0", "0", " ", "O", "K", "\r", "\n">>

Unauthorized401 ==
    <<"H", "T", "T", "P", "/", "1", ".", "1", " ", "4", "0", "1", " ", "U", "n", "a", "u", "t", "h", "o", "r", "i", "z", "e", "d", "\r", "\n", "W", "W", "W", "-", "A", "u", "t", "h", "e", "n", "t", "i", "c", "a", "t", "e", ":", " ", "B", "a", "s", "i", "c", " ", "r", "e", "a", "l", "m", "=", "\"", "R", "e", "s", "t", "r", "i", "c", "t", "e", "d", " ", "a", "r", "e", "a", "\"", "\r", "\n">>

\* The auth routes whose auth expression gave a list of pairs and whose
\* request has been answered.
Answered(c) ==
    /\ Did(c, "auth")
    /\ c.matching \in DOMAIN Table
    /\ Table[c.matching].auth
    /\ WellFormed(c.db)
    /\ c.state = "responded"

C9_UnknownRouteAnswers404 ==
    \A i \in ConnIds :
        LET c == conns[i]
            defined == Txt.not_found \in DOMAIN Table
            body == IF ~defined THEN <<"4", "0", "4", " ", "-", " ", "N", "o", "t", " ", "f", "o", "u", "n", "d">>
                    ELSE IF c.left = <<>> THEN <<>>
                    ELSE get_string(c.left[Len(c.left)])
        IN (Did(c, "match") /\ c.matching \notin DOMAIN Table) =>
              /\ IsPrefix(c.trace, <<"accept", "match", "notfound">>)
              /\ \A k \in 1..Len(c.ran) : c.ran[k] = Txt.not_found
              /\ ~Did(c, "notfound") => (sv.cur = i /\ sv.pc = "notfound" /\ c.out = <<>>)
              /\ (Did(c, "notfound") /\ c.io = "ok" /\ ~defined) => c.state = "responded"
              /\ c.state = "responded" =>
                    /\ c.ran = IF defined THEN <<Txt.not_found>> ELSE <<>>
                    /\ Len(c.out) = 1
                    /\ StartsWith(c.out[1], <<"H", "T", "T", "P", "/", "1", ".", "1", " ", "4", "0", "4", " ", "N", "O", "T", " ", "F", "O", "U", "N", "D", "\r", "\n">>)
                    /\ EndsWith(c.out[1], CRLF \o CRLF \o body)

\* Both cases: the second source answers an unknown path with what its
\* `not-found` handler left, the first source with the literal.
C9_Witness ==
    \E i \in ConnIds :
        /\ conns[i].req = Req.unknown
        /\ conns[i].state = "responded"
        /\ \/ /\ Src(CustomSource)
              /\ conns[i].ran = <<Txt.not_found>>
              /\ conns[i].out = <<<<"H", "T", "T", "P", "/", "1", ".", "1", " ", "4", "0", "4", " ", "N", "O", "T", " ", "F", "O", "U", "N", "D", "\r", "\n", "C", "o", "n", "t", "e", "n", "t", "-", "T", "y", "p", "e", ":", " ", "t", "e", "x", "t", "/", "p", "l", "a", "i", "n", ";", " ", "c", "h", "a", "r", "s", "e", "t", "=", "u", "t", "f", "-", "8", "\r", "\n", "\r", "\n", "g", "o", "n", "e">>>>
           \/ /\ Src(SiteSource)
              /\ conns[i].ran = <<>>
              /\ conns[i].out = <<<<"H", "T", "T", "P", "/", "1", ".", "1", " ", "4", "0", "4", " ", "N", "O", "T", " ", "F", "O", "U", "N", "D", "\r", "\n", "C", "o", "n", "t", "e", "n", "t", "-", "T", "y", "p", "e", ":", " ", ";", " ", "c", "h", "a", "r", "s", "e", "t", "=", "u", "t", "f", "-", "8", "\r", "\n", "\r", "\n", "4", "0", "4", " ", "-", " ", "N", "o", "t", " ", "f", "o", "u", "n", "d">>>>

(***************************************************************************)
(* Further claims about the evaluator on its own.                          *)
(***************************************************************************)
\* C11 as stated: from every stack, depths 0 and 1 included, `swap` twice
\* leaves the stack and Memory as they were.
C11_SwapSwapIdentityAnyDepth ==
    Finished /\ Src(<<"s", "w", "a", "p", " ", "s", "w", "a", "p">>) =>
        /\ M.stack = start.stack
        /\ M.memory = start.memory

\* C11 amended: from every stack of depth 2 or more, `swap` twice leaves the
\* stack and Memory as they were; from a shallower stack it leaves two
\* entries, the underflow Strings among them.
C11_SwapSwapIdentityFromDepthTwo ==
    Finished /\ Src(<<"s", "w", "a", "p", " ", "s", "w", "a", "p">>) =>
        /\ Len(start.stack) >= 2 => M.stack = start.stack
        /\ Len(start.stack) = 1 => M.stack = <<String(<<>>), start.stack[1]>>
        /\ Len(start.stack) = 0 => M.stack = <<String(<<>>), String(<<>>)>>
        /\ M.memory = start.memory

C11_Witness ==
    /\ Finished
    /\ Src(<<"s", "w", "a", "p", " ", "s", "w", "a", "p">>)
    /\ Len(start.stack) = 2
    /\ start.stack[1] # start.stack[2]
    /\ M.stack = start.stack
    /\ actor = Main

(***************************************************************************)
(* `var` and the lookup of the name it bound: the value and the name are   *)
(* on the stack, the source is `var` followed by the name as a token.      *)
(***************************************************************************)
VarNames ==
    {<<"x">>, <<"a", "d", "d">>, <<"#", "c", "#">>, <<"z", "z", "z">>, <<"a", ".", "b">>, <<"5">>, <<"-", "3">>, <<"t", "r", "u", "e">>, <<"(", "x", ")">>, <<"[", "1", "]">>,
     <<"e", "r", "r", "o", "r", ":", "e">>}

InitVar ==
    \E v \in Vals, n \in VarNames, mode \in Modes :
        \E m \in {EmptyMap, MapSet(EmptyMap, n, Bool(FALSE))} :
            InitWith(K.c_var \o <<" ">> \o n, [stack |-> <<v, String(n)>>, memory |-> m], mode)

SpecVar == InitVar /\ [][Next]_vars

\* The token is one of the literal forms evaluate_program tests before Memory.
LiteralForm(n) ==
    \/ parse_f64(n).ok
    \/ n \in {<<"t", "r", "u", "e">>, <<"f", "a", "l", "s", "e">>}
    \/ n[1] = "(" /\ n[Len(n)] = ")"
    \/ n[1] = "[" /\ n[Len(n)] = "]"
    \/ StartsWith(n, <<"e", "r", "r", "o", "r", ":">>)

\* C12 as stated: for every value v and every name n that lexes as a single
\* token, after `var` has bound n to v, the bare token n pushes exactly one
\* value equal to v and leaves Memory unchanged.
C12_BoundNamePushesValue ==
    LET v == start.stack[1]
        n == start.stack[2].s
    IN (Finished /\ analyze_syntax(n) = <<n>>) =>
          /\ M.stack = <<v>>
          /\ M.memory = MapSet(start.memory, n, v)

\* C12 amended: for every value v and every name n that lexes as a single
\* token and is not a literal (a number, `true`, `false`, `(...)`, `[...]`,
\* `error:...`), after `var` has bound n to v, the bare token n pushes
\* exactly one value equal to v and leaves Memory unchanged.
C12_BoundNonLiteralNamePushesValue ==
    LET v == start.stack[1]
        n == start.stack[2].s
    IN (analyze_syntax(n) = <<n>> /\ ~LiteralForm(n) /\ M.status \in {"run", "done"}) =>
          /\ Len(M.prog) = 1 =>
                /\ M.stack = <<>>
                /\ M.memory = MapSet(start.memory, n, v)
          /\ Finished =>
                /\ M.stack = <<v>>
                /\ M.memory = MapSet(start.memory, n, v)

\* The name `add` was bound over an earlier binding and then read back.
C12_Witness ==
    /\ Finished
    /\ start.stack = <<Number(2), String(<<"a", "d", "d">>)>>
    /\ start.memory = MapSet(EmptyMap, <<"a", "d", "d">>, Bool(FALSE))
    /\ M.stack = <<Number(2)>>
    /\ M.memory = MapSet(EmptyMap, <<"a", "d", "d">>, Number(2))

(***************************************************************************)
(* `map`, `filter` and `reduce`: the operands are on the stack and the     *)
(* source is the operator alone, or the source is a whole program run on   *)
(* a fresh executor.                                                       *)
(***************************************************************************)
MaxList == 3

LoopLists ==
    {[i \in 1..n |-> Number(<<2, 1, 3, 5, 4>>[((i - 1) % 5) + 1])] : n \in 0..MaxList}
        \cup {<<String(<<"b">>), Number(1)>>}

LoopCodes ==
    {<<"x">>, <<"x", " ", "x", " ", "m", "u", "l">>, <<"a", " ", "x", " ", "a", "d", "d">>, <<"a", " ", "x", " ", "c", "o", "n", "c", "a", "t">>, <<"x", " ", "2", " ", "l", "e", "s", "s">>, <<>>, <<"(", "q", ")", " ", "(", "x", ")", " ", "v", "a", "r">>,
     <<"(", "x", ")", " ", "f", "r", "e", "e">>, <<"7", " ", "(", "a", ")", " ", "v", "a", "r", " ", "a">>, <<"[", "(", "q", ")", " ", "(", "x", ")", " ", "v", "a", "r", "]">>}

LoopMemories == {EmptyMap, MapSet(MapSet(EmptyMap, <<"a">>, Number(2)), <<"x">>, Bool(TRUE))}

LoopOperands ==
    {<<List(l), String(<<"x">>), String(c)>> : l \in LoopLists, c \in LoopCodes}
        \cup {<<List(l), String(acc), String(<<"x">>), String(c)>> :
                  l \in LoopLists, acc \in {<<"a">>, <<"x">>}, c \in LoopCodes}

LoopPrograms ==
    {<<"[", "1", "0", " ", "2", "0", " ", "3", "0", "]", " ", "(", "x", ")", " ", "[", "x", " ", "x", " ", "m", "u", "l", "]", " ", "m", "a", "p">>, <<"[", "1", "0", " ", "2", "0", " ", "3", "0", "]", " ", "(", "x", ")", " ", "(", "x", " ", "x", " ", "m", "u", "l", ")", " ", "m", "a", "p">>,
     <<"[", "1", " ", "2", " ", "3", " ", "4", "]", " ", "(", "a", ")", " ", "(", "n", ")", " ", "[", "a", " ", "n", " ", "a", "d", "d", "]", " ", "r", "e", "d", "u", "c", "e">>, <<"[", "1", " ", "2", " ", "3", " ", "4", "]", " ", "(", "a", ")", " ", "(", "n", ")", " ", "(", "a", " ", "n", " ", "a", "d", "d", ")", " ", "r", "e", "d", "u", "c", "e">>}

InitLoop ==
    \/ \E s \in LoopOperands, m \in LoopMemories, mode \in Modes :
          \E op \in (IF Len(s) = 4 THEN {K.c_reduce} ELSE {K.c_map, K.c_filter}) :
              InitWith(op, [stack |-> s, memory |-> m], mode)
    \/ \E src \in LoopPrograms, mode \in Modes :
          InitWith(src, [stack |-> <<>>, memory |-> EmptyMap], mode)

SpecLoop == InitLoop /\ [][Next]_vars

\* The operands of the operator the run started with.
LoopOp == start.src \in {K.c_map, K.c_filter, K.c_reduce}

LoopList == start.stack[1].l

LoopVar == start.stack[Len(start.stack) - 1].s

LoopCode == start.stack[Len(start.stack)].s

LoopAcc == start.stack[2].s

\* The code operand has no token that can rebind or free `name`: no list
\* literal, no operator that evaluates an operand, no `var` or `free` that
\* follows the string literal of the name.
Quiet(code, name) ==
    LET toks == analyze_syntax(code)
    IN \A i \in 1..Len(toks) :
          /\ toks[i][1] # "["
          /\ toks[i] \notin {K.c_eval, K.c_if, K.c_while, K.c_for, K.c_map, K.c_filter,
                             K.c_reduce, K.c_thread}
          /\ toks[i] \in {K.c_var, K.c_free} =>
                i > 1 /\ toks[i - 1] # <<"(">> \o name \o <<")">>

\* C13 as stated: after map, filter or reduce completes over a non-empty
\* list, Memory[var] equals the last element of the list, for every list and
\* every code operand.
C13_LoopVarIsLastElement ==
    (Finished /\ LoopOp /\ LoopList # <<>>) =>
        /\ LoopVar \in DOMAIN M.memory
        /\ M.memory[LoopVar] = LoopList[Len(LoopList)]

\* C13 amended: after map, filter or reduce completes over a non-empty list,
\* Memory[var] equals the last element of the list, for every list and every
\* code operand that does not itself rebind or free var, and for reduce when
\* var is not also the accumulator's name.
C13_LoopVarIsLastElementUnlessRebound ==
    (/\ Finished /\ LoopOp /\ LoopList # <<>>
     /\ Quiet(LoopCode, LoopVar)
     /\ start.src = K.c_reduce => LoopAcc # LoopVar) =>
        /\ LoopVar \in DOMAIN M.memory
        /\ M.memory[LoopVar] = LoopList[Len(LoopList)]

\* filter ran over [2 1 3] with x bound to true before, and x is 3 after.
C13_Witness ==
    /\ Finished /\ start.src = K.c_filter
    /\ LoopList = <<Number(2), Number(1), Number(3)>>
    /\ LoopCode = <<"x", " ", "2", " ", "l", "e", "s", "s">>
    /\ Bound(<<"x">>)
    /\ M.memory[<<"x">>] = Number(3)
    /\ M.stack = <<List(<<Number(1)>>)>>

RECURSIVE SumOf(_)
SumOf(l) == IF l = <<>> THEN 0 ELSE get_number(Head(l)) + SumOf(Tail(l))

RECURSIVE ConcatOf(_)
ConcatOf(l) == IF l = <<>> THEN <<>> ELSE get_string(Head(l)) \o ConcatOf(Tail(l))

\* C14: reduce(list, acc, var, code) sets Memory[acc] to the empty String,
\* then for each element in list order binds Memory[var], evaluates code and
\* stores the popped top in Memory[acc]; when it completes it has pushed the
\* final Memory[acc] (the empty String for an empty list) and Memory[acc] is
\* the empty String again, whatever Memory[acc] held before the call.  The
\* pushed value is checked for the codes whose fold has a closed form.
C14_ReduceFoldsAndResetsAcc ==
    (Finished /\ start.src = K.c_reduce) =>
        /\ Len(M.stack) = 1
        /\ LoopAcc \in DOMAIN M.memory /\ M.memory[LoopAcc] = String(<<>>)
        /\ LoopList = <<>> => M.stack = <<String(<<>>)>>
        /\ (LoopAcc # LoopVar /\ LoopList # <<>>) =>
              /\ LoopCode = <<"x">> => M.stack[1] = LoopList[Len(LoopList)]
              /\ (LoopCode = <<"a", " ", "x", " ", "a", "d", "d">> /\ LoopAcc = <<"a">>) =>
                    M.stack[1] = Number(SumOf(LoopList))
              /\ (LoopCode = <<"a", " ", "x", " ", "c", "o", "n", "c", "a", "t">> /\ LoopAcc = <<"a">>) =>
                    M.stack[1] = String(ConcatOf(LoopList))
              /\ LoopCode = <<>> => M.stack[1] = String(<<>>)
              /\ LoopCode = <<"x", " ", "x", " ", "m", "u", "l">> =>
                    M.stack[1] = Number(get_number(LoopList[Len(LoopList)])
                                            * get_number(LoopList[Len(LoopList)]))
        /\ (LoopAcc = LoopVar /\ LoopList # <<>>) =>
              \* the element overwrites the accumulator at the head of each iteration
              /\ LoopCode = <<"x">> => M.stack[1] = LoopList[Len(LoopList)]

\* reduce summed [2 1 3] into `a`, which held 2 before and is empty after.
C14_Witness ==
    /\ Finished /\ start.src = K.c_reduce
    /\ LoopList = <<Number(2), Number(1), Number(3)>>
    /\ LoopCode = <<"a", " ", "x", " ", "a", "d", "d">> /\ LoopAcc = <<"a">>
    /\ Bound(<<"a">>) /\ start.memory[<<"a">>] = Number(2)
    /\ M.stack = <<Number(6)>>
    /\ M.memory[<<"a">>] = String(<<>>)
    /\ M.memory[<<"x">>] = Number(3)

\* C15 as stated: on a fresh executor the program
\* `[10 20 30] (x) [x x mul] map` leaves exactly one stack entry, the List
\* [100 400 900], and the program `[1 2 3 4] (a) (n) [a n add] reduce`
\* leaves 10 on top of the stack.
C15_ListLiteralCodeScenarios ==
    /\ (Finished /\ Src(<<"[", "1", "0", " ", "2", "0", " ", "3", "0", "]", " ", "(", "x", ")", " ", "[", "x", " ", "x", " ", "m", "u", "l", "]", " ", "m", "a", "p">>)) =>
          M.stack = <<List(<<Number(100), Number(400), Number(900)>>)>>
    /\ (Finished /\ Src(<<"[", "1", " ", "2", " ", "3", " ", "4", "]", " ", "(", "a", ")", " ", "(", "n", ")", " ", "[", "a", " ", "n", " ", "a", "d", "d", "]", " ", "r", "e", "d", "u", "c", "e">>)) =>
          M.stack # <<>> /\ M.stack[Len(M.stack)] = Number(10)

\* C15 amended: on a fresh executor the scenarios hold with the code operand
\* written as a string literal: `[10 20 30] (x) (x x mul) map` leaves exactly
\* one stack entry, the List [100 400 900], and
\* `[1 2 3 4] (a) (n) (a n add) reduce` leaves 10 on top of the stack.  With
\* the code operand written as a list literal the operand is evaluated when
\* it is read, and the programs leave the List [[0] [0] [0]] and the List [0].
C15_StringLiteralCodeScenarios ==
    /\ (Finished /\ Src(<<"[", "1", "0", " ", "2", "0", " ", "3", "0", "]", " ", "(", "x", ")", " ", "(", "x", " ", "x", " ", "m", "u", "l", ")", " ", "m", "a", "p">>)) =>
          M.stack = <<List(<<Number(100), Number(400), Number(900)>>)>>
    /\ (Finished /\ Src(<<"[", "1", " ", "2", " ", "3", " ", "4", "]", " ", "(", "a", ")", " ", "(", "n", ")", " ", "(", "a", " ", "n", " ", "a", "d", "d", ")", " ", "r", "e", "d", "u", "c", "e">>)) =>
          M.stack = <<Number(10)>>
    /\ (Finished /\ Src(<<"[", "1", "0", " ", "2", "0", " ", "3", "0", "]", " ", "(", "x", ")", " ", "[", "x", " ", "x", " ", "m", "u", "l", "]", " ", "m", "a", "p">>)) =>
          M.stack = <<List(<<List(<<Number(0)>>), List(<<Number(0)>>), List(<<Number(0)>>)>>)>>
    /\ (Finished /\ Src(<<"[", "1", " ", "2", " ", "3", " ", "4", "]", " ", "(", "a", ")", " ", "(", "n", ")", " ", "[", "a", " ", "n", " ", "a", "d", "d", "]", " ", "r", "e", "d", "u", "c", "e">>)) =>
          M.stack = <<List(<<Number(0)>>)>>

\* The map scenario with a string-literal code operand has run to its end.
C15_Witness ==
    /\ Finished /\ Src(<<"[", "1", "0", " ", "2", "0", " ", "3", "0", "]", " ", "(", "x", ")", " ", "(", "x", " ", "x", " ", "m", "u", "l", ")", " ", "m", "a", "p">>)
    /\ M.stack = <<List(<<Number(100), Number(400), Number(900)>>)>>
    /\ M.memory = MapSet(EmptyMap, <<"x">>, Number(30))
    /\ actor = Main

(***************************************************************************)
(* The operators of objects, list indexing and casting on their operands:  *)
(* the operands are on the stack and the source is the operator, or the    *)
(* source is a whole program run on a fresh executor.                      *)
(***************************************************************************)
Pt == String(<<"p", "t">>)

Entry(fields) == List([i \in 1..Len(fields) |-> String(fields[i])])

Classes ==
    {List(<<>>), List(<<Pt>>),
     List(<<Pt, Entry(<<<<"x">>>>), Entry(<<<<"y">>>>)>>),
     List(<<Pt, Entry(<<<<"y">>>>)>>),
     List(<<Pt, Entry(<<<<"x">>>>), List(<<String(<<"y">>), Number(9)>>)>>),
     List(<<Pt, List(<<String(<<"x">>), Number(7), Number(8)>>), Entry(<<<<"y">>>>)>>),
     List(<<Pt, Entry(<<<<"x">>>>), List(<<>>)>>),
     List(<<Pt, List(<<>>), Entry(<<<<"x">>>>)>>),
     List(<<Pt, String(<<>>), List(<<>>)>>),
     List(<<Pt, Entry(<<<<"x">>>>), Entry(<<<<"x">>>>)>>),
     List(<<Pt, String(<<"x">>)>>),
     Pt}

Datas == {List(SubSeq(<<Number(3), Number(4), Number(5)>>, 1, n)) : n \in 0..3} \cup {Number(3)}

FieldNames == {<<"x">>, <<"y">>, <<"z">>}

InstanceThenProperty(f) == K.c_instance \o <<" ", "(">> \o f \o <<")", " ">> \o K.c_property

PointProgram == <<"[", "(", "p", "t", ")", " ", "[", "x", "]", " ", "[", "y", "]", "]", " ", "[", "3", " ", "4", "]", " ", "i", "n", "s", "t", "a", "n", "c", "e", " ", "(", "x", ")", " ", "p", "r", "o", "p", "e", "r", "t", "y">>

\* Objects as `instance` leaves them, in either iteration order.
Objects ==
    {Object(<<"p", "t">>, EmptyMap, <<>>),
     Object(<<"p", "t">>, MapSet(EmptyMap, <<"x">>, Number(3)), <<<<"x">>>>),
     Object(<<"p", "t">>, MapSet(MapSet(EmptyMap, <<"x">>, Number(3)), <<"y">>, String(<<>>)),
            <<<<"x">>, <<"y">>>>),
     Object(<<"p", "t">>, MapSet(MapSet(EmptyMap, <<"x">>, Number(3)), <<"y">>, String(<<>>)),
            <<<<"y">>, <<"x">>>>)}

InitObjects ==
    \E h \in HashOrders, mode \in Modes :
        \/ \E class \in Classes, data \in Datas :
              \E src \in {K.c_instance} \cup {InstanceThenProperty(f) : f \in FieldNames} :
                  InitWith(src, [stack |-> <<class, data>>, memory |-> EmptyMap, hash |-> h],
                           mode)
        \/ \E receiver \in Vals \cup Objects, f \in FieldNames :
              InitWith(K.c_property,
                       [stack |-> <<receiver, String(f)>>, memory |-> EmptyMap, hash |-> h],
                       mode)
        \/ InitWith(PointProgram, [stack |-> <<>>, memory |-> EmptyMap, hash |-> h], mode)

InitIndex ==
    \E l \in LoopLists, i \in -2..(MaxList + 1), mode \in Modes :
        \/ \E op \in {K.c_get, K.c_del} :
              InitWith(op, [stack |-> <<List(l), Number(i)>>, memory |-> EmptyMap], mode)
        \/ \E v \in {Number(7), String(<<"q">>)} :
              InitWith(K.c_set, [stack |-> <<List(l), Number(i), v>>, memory |-> EmptyMap],
                       mode)

Jsons ==
    {Json([k |-> "null"]), Json([k |-> "bool", b |-> TRUE]), Json([k |-> "number", n |-> 4]),
     Json([k |-> "string", s |-> <<"h", "i">>]), Json([k |-> "array", a |-> <<[k |-> "null"]>>]),
     Json([k |-> "object", m |-> <<>>]),
     Json([k |-> "object", m |-> <<[key |-> <<"a">>, val |-> [k |-> "number", n |-> 1]]>>])}

CastVals ==
    Vals \cup Objects \cup Jsons
        \cup {Number(0), String(<<>>), String(<<"5">>), Bool(FALSE), List(<<>>), Error(<<"t", "r", "u", "e">>),
              Error(<<"5">>), Binary(<<>>), Binary(<<65, 0>>)}

CastTags ==
    {Txt.number, Txt.string, Txt.bool, Txt.list, Txt.json, Txt.error, <<"i", "n", "t">>, <<"S", "t", "r", "i", "n", "g">>, <<>>}

InitCast ==
    \E v \in CastVals, tag \in CastTags, mode \in Modes :
        InitWith(K.c_cast, [stack |-> <<v, String(tag)>>, memory |-> EmptyMap], mode)

InitOps == InitObjects \/ InitIndex \/ InitCast

SpecOps == InitOps /\ [][Next]_vars

\* The class has a name and one-element entries [f1] .. [fn] with distinct
\* field names; PositionalFields lists f1..fn.
PositionalFields(class) == [i \in 1..(Len(class.l) - 1) |-> class.l[i + 1].l[1].s]

Positional(class) ==
    /\ class.t = "List" /\ class.l # <<>>
    /\ \A i \in 2..Len(class.l) :
          /\ class.l[i].t = "List" /\ Len(class.l[i].l) = 1 /\ class.l[i].l[1].t = "String"
          /\ \A j \in 2..Len(class.l) : class.l[j] = class.l[i] => j = i

\* C16: for an Object built by `instance` from a class with positional
\* fields f1..fn and data d1..dn, `property` with name fi pushes di (so
\* `[(pt) [x] [y]] [3 4] instance (x) property` pushes 3); `property` with a
\* name that is not a field pushes Error `property`; `property` applied to a
\* non-Object receiver pushes Error `not-object`.
C16_PropertyReadsPositionalField ==
    /\ \A f \in FieldNames :
          (/\ Finished /\ Src(InstanceThenProperty(f))
           /\ Positional(start.stack[1])
           /\ start.stack[2].t = "List"
           /\ Len(start.stack[2].l) = Len(PositionalFields(start.stack[1]))) =>
              LET fields == PositionalFields(start.stack[1])
                  data == start.stack[2].l
              IN /\ \A i \in 1..Len(fields) : fields[i] = f => M.stack = <<data[i]>>
                 /\ (\A i \in 1..Len(fields) : fields[i] # f) =>
                       M.stack = <<Error(<<"p", "r", "o", "p", "e", "r", "t", "y">>)>>
    /\ (Finished /\ Src(PointProgram)) => M.stack = <<Number(3)>>
    /\ (Finished /\ Src(K.c_property)) =>
          /\ start.stack[1].t # "Object" => M.stack = <<Error(<<"n", "o", "t", "-", "o", "b", "j", "e", "c", "t">>)>>
          /\ start.stack[1].t = "Object" =>
                LET o == start.stack[1].o
                    f == start.stack[2].s
                IN M.stack = <<IF f \in DOMAIN o THEN o[f] ELSE Error(<<"p", "r", "o", "p", "e", "r", "t", "y">>)>>

\* `(y) property` read 4 from the Object built from [(pt) [x] [y]] and [3 4].
C16_Witness ==
    /\ Finished /\ Src(InstanceThenProperty(<<"y">>))
    /\ start.stack = <<List(<<Pt, Entry(<<<<"x">>>>), Entry(<<<<"y">>>>)>>),
                       List(<<Number(3), Number(4)>>)>>
    /\ M.stack = <<Number(4)>>

\* C17: for every list l and every index i outside 0..len(l)-1 (negative as
\* well as >= len(l)), `get`, `set` and `del` push Error `index-out-range`
\* and push no element or list; for i inside the range, `get` pushes l[i],
\* `set` pushes l with only position i replaced, and `del` pushes l with only
\* position i removed.
C17_IndexOutsideRangeIsError ==
    (Finished /\ start.src \in {K.c_get, K.c_set, K.c_del}) =>
        LET l == start.stack[1].l
            i == start.stack[2].n
        IN IF i < 0 \/ i >= Len(l)
           THEN M.stack = <<Error(<<"i", "n", "d", "e", "x", "-", "o", "u", "t", "-", "r", "a", "n", "g", "e">>)>>
           ELSE /\ start.src = K.c_get => M.stack = <<l[i + 1]>>
                /\ start.src = K.c_set =>
                      M.stack = <<List([l EXCEPT ![i + 1] = start.stack[3]])>>
                /\ start.src = K.c_del =>
                      M.stack = <<List(SubSeq(l, 1, i) \o SubSeq(l, i + 2, Len(l)))>>

\* C18: `instance` pushes exactly one value in every case: Error
\* `instance-name` when the class list is empty; Error `instance-shortage`
\* when the data list has fewer values than the class has one-element
\* entries; Error `instance-default` when a class entry is malformed (coerces
\* to an empty list); otherwise an Object named by the class head.  In the
\* three error cases no Object is pushed.
C18_InstancePushesOneValue ==
    (Finished /\ Src(K.c_instance)) =>
        LET class == get_list(start.stack[1])
            data == get_list(start.stack[2])
            entries == [i \in 1..(Len(class) - 1) |-> get_list(class[i + 1])]
            ones == {i \in 1..Len(entries) : Len(entries[i]) = 1}
        IN /\ Len(M.stack) = 1
           /\ class = <<>> => M.stack[1] = Error(<<"i", "n", "s", "t", "a", "n", "c", "e", "-", "n", "a", "m", "e">>)
           /\ (class # <<>> /\ \E i \in 1..Len(entries) : entries[i] = <<>>) =>
                 M.stack[1].t = "Error"
           /\ (class # <<>> /\ Cardinality(ones) > Len(data)) => M.stack[1].t = "Error"
           /\ (/\ class # <<>> /\ Cardinality(ones) <= Len(data)
               /\ \A i \in 1..Len(entries) : entries[i] # <<>>) =>
                 M.stack[1].t = "Object" /\ M.stack[1].name = get_string(class[1])

\* C20: every Value variant (Number, String, Bool, List, Json, Object, Error,
\* Binary) has a defined, non-failing result for each of the coercions to
\* string, number, bool and list, as reachable through `cast`; Object to bool
\* is true if and only if the field map is empty, while String, List and
\* Binary to bool are true if and only if non-empty, and `cast` with a tag
\* outside {number, string, bool, list, json, error} pushes the value back
\* unchanged.
C20_CastCoercionsAreTotal ==
    (Src(K.c_cast) /\ start.stack[2].s # Txt.json) =>
        LET v == start.stack[1]
            tag == start.stack[2].s
            out == M.stack[1]
        IN /\ M.status \in {"run", "done"}
           /\ M.prog = <<>> =>
                 /\ Len(M.stack) = 1
                 /\ tag = Txt.string => out.t = "String" /\ out.s \in Seq(STRING)
                 /\ tag = Txt.number => out.t = "Number" /\ out.n \in Int
                 /\ tag = Txt.list => out.t = "List" /\ DOMAIN out.l = 1..Len(out.l)
                 /\ tag = Txt.bool =>
                       /\ out.t = "Bool" /\ out.b \in BOOLEAN
                       /\ v.t = "Object" => out.b = (DOMAIN v.o = {})
                       /\ v.t = "String" => out.b = (Len(v.s) > 0)
                       /\ v.t = "List" => out.b = (Len(v.l) > 0)
                       /\ v.t = "Binary" => out.b = (Len(v.bytes) > 0)
                 /\ tag \notin {Txt.number, Txt.string, Txt.bool, Txt.list, Txt.error} =>
                       out = v

\* An Object with fields was cast to bool and gave false.
C20_Witness ==
    /\ Finished /\ Src(K.c_cast)
    /\ start.stack[1].t = "Object" /\ DOMAIN start.stack[1].o # {}
    /\ start.stack[2] = String(Txt.bool)
    /\ M.stack = <<Bool(FALSE)>>

(***************************************************************************)
(* The lexer on its own: every text over a small alphabet is the source.   *)
(***************************************************************************)
MaxText == 4

LexAlphabet == {"(", ")", "[", "]", "#", " ", "a", "\\"}

MaxInner == 3

\* Sources made of one string literal and the text that follows it.
Inners == UNION {[1..n -> LexAlphabet] : n \in 0..MaxInner}

Rests == {<<>>, <<"7">>, <<"(", "x", " ", "y", ")", " ", "7">>, <<"[", "7", " ", "8", "]">>, <<"t", "r", "u", "e", " ", "7">>}

Literal(inner) == <<"(">> \o inner \o <<")">>

LiteralThen(inner, rest) ==
    IF rest = <<>> THEN Literal(inner) ELSE Literal(inner) \o <<" ">> \o rest

InitLex ==
    \/ \E n \in 0..MaxText :
            \E src \in [1..n -> LexAlphabet] :
                InitWith(src, [stack |-> <<>>, memory |-> EmptyMap], "Script")
    \/ \E inner \in Inners, rest \in Rests :
            InitWith(LiteralThen(inner, rest), [stack |-> <<>>, memory |-> EmptyMap], "Script")

SpecLex == InitLex /\ [][Next]_vars

Count(text, c) == Cardinality({i \in 1..Len(text) : text[i] = c})

Balanced(text) ==
    /\ Count(text, "(") = Count(text, ")")
    /\ Count(text, "[") = Count(text, "]")
    /\ Count(text, "#") % 2 = 0

\* The token list of the source (the position of the main executor before
\* its first step) is what lexing its tokens joined by single spaces gives.
RoundTrip == analyze_syntax(JoinWith(M.prog, <<" ">>)) = M.prog

\* C19 as stated: for every input whose (), [] and #...# delimiters are
\* balanced, joining the tokens produced by analyze_syntax with single
\* spaces and lexing the result again yields the same token list.
C19_LexerRoundTripBalanced ==
    (actor = 0 /\ Balanced(start.src)) => RoundTrip

\* C19 amended: for every input that contains no backslash (whether or not
\* its delimiters are balanced), joining the tokens produced by
\* analyze_syntax with single spaces and lexing the result again yields the
\* same token list.
C19_LexerRoundTripNoBackslash ==
    (actor = 0 /\ Count(start.src, "\\") = 0) => RoundTrip

\* A balanced source without backslash, a string literal with a space inside
\* and a space before it, was lexed into one token that lexes to itself.
C19_Witness ==
    /\ actor = 0 /\ Balanced(start.src) /\ Count(start.src, "\\") = 0
    /\ M.prog = <<<<"(", " ", ")">>>>
    /\ start.src # JoinWith(M.prog, <<" ">>)
    /\ RoundTrip

(***************************************************************************)
(* Further claims about the server.                                        *)
(***************************************************************************)
\* C21 as stated: a server started with the route list
\* `[[[(GET /) (html)] [(hello) print (hello)]]]` answers `GET /` with status
\* 200, header `Content-Type: hello; charset=utf-8` and body `hello`; the
\* handler code runs when the request is handled, not when the route list
\* literal is read.
C21_HelloRouteAnswersHello ==
    Src(HelloSource) =>
        /\ (\E e \in Ids : Listening(e)) /\ conns = <<>> => M.printed = <<>>
        /\ \A i \in ConnIds :
              (conns[i].req = Req.home /\ conns[i].io = "ok"
                  /\ conns[i].state = "responded") =>
                    /\ conns[i].out = <<Format200(<<"h", "e", "l", "l", "o">>, <<"h", "e", "l", "l", "o">>)>>
                    /\ M.printed # <<>>

\* C21 amended: the route list literal is evaluated when it is read, `print`
\* included: `hello` is printed once, before the server starts, and the
\* handler registered for `GET /` is the text `[(hello)]` of the list the
\* literal left.  The server answers `GET /` with status 200, header
\* `Content-Type: ; charset=utf-8` (the MIME is the request body, here
\* empty) and body `[(hello)]`, and handling a request prints nothing.
C21_HelloRouteAnswersListText ==
    (Src(HelloSource) /\ \E e \in Ids : execs[e].status = "serving") =>
        /\ M.printed = <<<<"h", "e", "l", "l", "o">>>>
        /\ M.routes = MapSet(EmptyMap, <<"G", "E", "T", " ", "/">>,
                             [code |-> <<"[", "(", "h", "e", "l", "l", "o", ")", "]">>, auth |-> FALSE, auth_data |-> <<>>])
        /\ \A i \in ConnIds :
              (conns[i].req = Req.home /\ conns[i].io = "ok"
                  /\ conns[i].state = "responded") =>
                    /\ conns[i].ran = <<<<"G", "E", "T", " ", "/">>>>
                    /\ conns[i].out = <<Format200(<<"[", "(", "h", "e", "l", "l", "o", ")", "]">>, <<>>)>>

\* `GET /` was answered by the hello server.
C21_Witness ==
    /\ Src(HelloSource)
    /\ Len(conns) >= 1
    /\ conns[1].req = Req.home /\ conns[1].io = "ok" /\ conns[1].state = "responded"
    /\ conns[1].trace = <<"accept", "match", "run", "respond">>
    /\ conns[1].out = <<Format200(<<"[", "(", "h", "e", "l", "l", "o", ")", "]">>, <<>>)>>
    /\ M.printed = <<<<"h", "e", "l", "l", "o">>>>

\* handle is still at work on an accepted connection.
InHandle == (\E e \in Ids : Listening(e)) /\ sv.pc \notin {"accept", "down"}

\* The listener is a running thread. At the top of its loop it takes the
\* next connection of the backlog, or the error of accepting it, and a
\* call of handle is straight-line code over evaluations that end: it
\* returns or takes the listener down. Clients connect when they like.
SpecServerFair ==
    /\ SpecServer
    /\ WF_vars(\E e \in Ids : Accept(e))
    /\ WF_vars(\E e \in Ids : AcceptError(e))
    /\ []<>(~InHandle)

\* Connection i met a connection-level error: its accept, its read or a
\* write on it failed.
Failed(i) ==
    /\ i <= Len(conns)
    /\ conns[i].io # "ok"
    /\ conns[i].state \in {"refused", "aborted"}

Queued(j) == j <= Len(conns) /\ conns[j].state = "queued"

\* The programs whose handlers all return: nothing but a connection-level
\* error can end their server.
HandlersReturn == start.src \in {HelloSource, PersistSource}

\* C22: after any connection-level error (a failed accept, or a failed read
\* or write on an accepted connection) the accept loop continues: every
\* later incoming connection is still eventually accepted and handled.
C22_AcceptLoopSurvivesConnectionErrors ==
    \A i, j \in 1..MaxConns :
        [](HandlersReturn /\ i < j /\ Failed(i) /\ Queued(j) => <>(~Queued(j)))

\* The body of the request of connection c, as handle cuts it out.
BodyOf(c) == ParseRequest(Buffer(c.req)).body

\* The credentials a request carries, as a set of pairs.
Carried(req) == {Credentials(req)[k] : k \in DOMAIN Credentials(req)}

\* C23: when a handler starts, the top of the stack is the request body; for
\* a route with auth the entry directly below it is List[user, pass], a
\* pair the request carries and an entry of the credentials database the
\* auth expression of the route gave; for a route without auth the body is
\* all that handle pushed.
C23_HandlerStartsOnPairAndBody ==
    \A i \in ConnIds :
        LET c == conns[i]
            s == c.seen.stack
            n == Len(s)
        IN (c.ran # <<>> /\ c.matching \in DOMAIN Table) =>
              /\ n >= 1
              /\ s[n] = String(BodyOf(c))
              /\ Table[c.matching].auth =>
                    /\ n >= 2
                    /\ \E pair \in Carried(c.req) \cap Listed(c.db) :
                          s[n - 1] = List(<<String(pair[1]), String(pair[2])>>)
              /\ ~Table[c.matching].auth => s = Append(c.entry, String(BodyOf(c)))

C23_Witness ==
    \E i, j \in ConnIds :
        /\ conns[i].ran # <<>> /\ conns[i].matching \in DOMAIN Table
        /\ Table[conns[i].matching].auth
        /\ Cardinality(Carried(conns[i].req)) >= 2
        /\ conns[j].ran # <<>> /\ conns[j].matching \in DOMAIN Table
        /\ ~Table[conns[j].matching].auth
        /\ BodyOf(conns[j]) # <<>>

\* The credentials of the header lines of a request: the lines in front of
\* the blank line that separates the headers from the body.
HeaderCredentials(req) ==
    LET headers == Len(UntilEmpty(Lines(Buffer(req))).taken)
    IN {Credentials(req)[k] : k \in {k \in DOMAIN Credentials(req) : k <= headers}}

\* C24: only the header lines of a request count for authentication: a
\* request to a route with auth whose header lines carry no credentials of
\* the database, whatever its body holds, is answered 401 and its handler
\* is not run.
C24_BodyCredentialsAreIgnored ==
    \A i \in ConnIds :
        (Answered(conns[i]) /\ HeaderCredentials(conns[i].req) \cap Listed(conns[i].db) = {}) =>
            /\ conns[i].out = <<Response401>>
            /\ conns[i].ran = <<>>

\* The Memory the main program has bound when it starts the server.
StartMemory ==
    IF Src(PersistSource) THEN MapSet(EmptyMap, <<"v">>, Number(7)) ELSE start.memory

\* The requests before request i whose handler ran.
RanBefore(i) == {j \in 1..(i - 1) : conns[j].ran # <<>>}

\* The Memory the handler of request i should start on: what the last
\* handler before it left, or what the main program had bound.
Inherited(i) ==
    IF RanBefore(i) = {} THEN StartMemory
    ELSE conns[CHOOSE j \in RanBefore(i) : \A k \in RanBefore(i) : k <= j].kept

\* What `GET /r` answers: the value of v as the token `v` pushes it.
ReadAnswer(memory) ==
    Format200(IF <<"v">> \in DOMAIN memory THEN get_string(memory[<<"v">>]) ELSE <<"v">>, <<"t">>)

PersistsAcrossRequests ==
    \A i \in ConnIds :
        /\ conns[i].ran # <<>> => conns[i].seen.memory = Inherited(i)
        /\ (Src(PersistSource) /\ conns[i].state = "responded") =>
              /\ conns[i].req = Req.read => conns[i].out = <<ReadAnswer(Inherited(i))>>
              /\ conns[i].req = Req.write => conns[i].kept = MapSet(Inherited(i), <<"v">>, Number(9))
              /\ conns[i].req = Req.forget => conns[i].kept = MapRemove(Inherited(i), <<"v">>)

\* While the server listens its route table stays what it is.
TableFixed ==
    ((\E e \in Ids : Listening(e)) /\ (\E e \in Ids : Listening(e))') => Table' = Table

\* C25: handlers run on the executor of the main program, which persists
\* across requests: the handler of a request starts on the Memory the main
\* program bound before `start-server` as the handlers before it left it (a
\* variable bound or freed by one handler is seen that way by the next), for
\* any sequence of requests; the route table is fixed when the server
\* starts and no handler changes it.
C25_ExecutorPersistsAcrossRequests ==
    []PersistsAcrossRequests /\ [][TableFixed]_vars

\* The second request read the variable the first one bound anew or freed,
\* and a first request read what the main program had bound.
C25_Witness ==
    /\ Src(PersistSource)
    /\ Len(conns) = 2
    /\ conns[1].req \in {Req.write, Req.forget} /\ conns[1].state = "responded"
    /\ conns[2].req = Req.read /\ conns[2].state = "responded"
    /\ conns[2].out \in {<<Format200(<<"9">>, <<"t">>)>>, <<Format200(<<"v">>, <<"t">>)>>}

C25_WitnessFirst ==
    /\ Src(PersistSource)
    /\ Len(conns) >= 1
    /\ conns[1].req = Req.read /\ conns[1].out = <<Format200(<<"7">>, <<"t">>)>>

(***************************************************************************)
(* Control flow and literals: `if` and `while` on operands an earlier      *)
(* program left, list literals and error tokens as source texts.           *)
(***************************************************************************)
FlowVals ==
    {Bool(TRUE), Bool(FALSE), Number(0), Number(2), String(<<>>), String(<<"a">>)}

FlowStacks(d) == UNION {[1..n -> FlowVals] : n \in 0..d}

\* A code, and what evaluating it does: the texts it prints, the names it
\* binds, the values it pushes.
Branches ==
    {[code |-> <<"(", "T", ")", " ", "p", "r", "i", "n", "t", " ", "1", " ", "(", "a", ")", " ", "v", "a", "r", " ", "5">>, printed |-> <<<<"T">>>>,
      binds |-> MapSet(EmptyMap, <<"a">>, Number(1)), pushes |-> <<Number(5)>>],
     [code |-> <<"(", "E", ")", " ", "p", "r", "i", "n", "t", " ", "2", " ", "(", "b", ")", " ", "v", "a", "r", " ", "(", "e", ")">>, printed |-> <<<<"E">>>>,
      binds |-> MapSet(EmptyMap, <<"b">>, Number(2)), pushes |-> <<String(<<"e">>)>>],
     [code |-> <<>>, printed |-> <<>>, binds |-> EmptyMap, pushes |-> <<>>]}

FlowConds ==
    FlowVals \cup {String(<<"f", "a", "l", "s", "e">>), List(<<>>), List(<<Bool(FALSE)>>), Error(<<"t", "r", "u", "e">>),
                   Error(<<"e">>)}

FlowMemories ==
    {EmptyMap, MapSet(EmptyMap, <<"a">>, Number(7)), MapSet(EmptyMap, <<"b">>, String(<<"v">>))}

\* cond prints what it leaves; cond leaves nothing; cond is always true.
WhileConds == {<<"i", " ", "2", " ", "l", "e", "s", "s", " ", "c", "o", "p", "y", " ", "p", "r", "i", "n", "t">>, <<"(", "C", ")", " ", "p", "r", "i", "n", "t">>, <<"t", "r", "u", "e", " ", "c", "o", "p", "y", " ", "p", "r", "i", "n", "t">>}

WhileBodies == {<<"i", " ", "1", " ", "a", "d", "d", " ", "(", "i", ")", " ", "v", "a", "r", " ", "(", "B", ")", " ", "p", "r", "i", "n", "t">>, <<"(", "B", ")", " ", "p", "r", "i", "n", "t">>}

\* List literals whose inside only pushes, and the List each stands for.
ListPrograms ==
    {[src |-> <<"[", "]">>, value |-> List(<<>>)],
     [src |-> <<"[", "1", " ", "2", " ", "3", "]">>, value |-> List(<<Number(1), Number(2), Number(3)>>)],
     [src |-> <<"[", "(", "a", ")", " ", "t", "r", "u", "e", " ", "2", "]">>, value |-> List(<<String(<<"a">>), Bool(TRUE), Number(2)>>)],
     [src |-> <<"[", "[", "1", " ", "2", "]", " ", "3", "]">>,
      value |-> List(<<List(<<Number(1), Number(2)>>), Number(3)>>)],
     [src |-> <<"[", "[", "]", " ", "[", "[", "5", "]", "]", "]">>,
      value |-> List(<<List(<<>>), List(<<List(<<Number(5)>>)>>)>>)],
     [src |-> <<"[", "e", "r", "r", "o", "r", ":", "x", " ", "[", "(", "b", ")", " ", "(", "c", ")", "]", "]">>,
      value |-> List(<<Error(<<"x">>), List(<<String(<<"b">>), String(<<"c">>)>>)>>)]}

\* Tokens that begin with `error:`, and the text after that prefix.
ErrorTokens ==
    {[src |-> <<"e", "r", "r", "o", "r", ":">>, rest |-> <<>>],
     [src |-> <<"e", "r", "r", "o", "r", ":", "x">>, rest |-> <<"x">>],
     [src |-> <<"e", "r", "r", "o", "r", ":", "n", "o", "t", "-", "f", "o", "u", "n", "d">>, rest |-> <<"n", "o", "t", "-", "f", "o", "u", "n", "d">>],
     [src |-> <<"e", "r", "r", "o", "r", ":", "e", "r", "r", "o", "r">>, rest |-> <<"e", "r", "r", "o", "r">>],
     [src |-> <<"e", "r", "r", "o", "r", ":", "a", ":", "b">>, rest |-> <<"a", ":", "b">>],
     [src |-> <<"e", "r", "r", "o", "r", ":", "a", "e", "r", "r", "o", "r", ":", "b">>, rest |-> <<"a", "e", "r", "r", "o", "r", ":", "b">>],
     [src |-> <<"e", "r", "r", "o", "r", ":", "e", "r", "r", "o", "r", ":">>, rest |-> <<"e", "r", "r", "o", "r", ":">>]}

\* The list elements map and filter run over here.
Elements == {Number(0), Number(1), Number(2), Number(3)}

FlowLists ==
    {<<>>, <<Number(2)>>, <<Number(0), Number(3)>>, <<Number(2), Number(1), Number(3)>>,
     <<Number(1), Number(0), Number(1)>>}

\* Codes that push exactly one value, and that value for x an element.
OneValueCodes ==
    {[code |-> <<"x">>, result |-> [v \in Elements |-> v]],
     [code |-> <<"x", " ", "x", " ", "m", "u", "l">>, result |-> [v \in Elements |-> Number(v.n * v.n)]],
     [code |-> <<"x", " ", "2", " ", "l", "e", "s", "s">>, result |-> [v \in Elements |-> Bool(v.n < 2)]],
     [code |-> <<"(", "k", ")", " ", "x", " ", "c", "o", "n", "c", "a", "t">>,
      result |-> [v \in Elements |-> String(<<"k">> \o NatToString(v.n))]],
     [code |-> <<"f", "a", "l", "s", "e">>, result |-> [v \in Elements |-> Bool(FALSE)]]}

\* List literals whose inside pops: how many entries it pops first, and
\* the values it pushes after that.
PoppingLists ==
    {[src |-> <<"[", "p", "o", "p", "]">>, pops |-> 1, pushes |-> <<>>],
     [src |-> <<"[", "p", "o", "p", " ", "p", "o", "p", "]">>, pops |-> 2, pushes |-> <<>>],
     [src |-> <<"[", "p", "o", "p", " ", "5", " ", "6", "]">>, pops |-> 1, pushes |-> <<Number(5), Number(6)>>],
     [src |-> <<"[", "p", "o", "p", " ", "p", "o", "p", " ", "(", "a", ")", "]">>, pops |-> 2, pushes |-> <<String(<<"a">>)>>],
     [src |-> <<"[", "1", " ", "p", "o", "p", "]">>, pops |-> 0, pushes |-> <<>>],
     [src |-> <<"[", "1", " ", "2", " ", "p", "o", "p", "]">>, pops |-> 0, pushes |-> <<Number(1)>>]}

InitFlow ==
    \/ \E p \in PoppingLists, base \in FlowStacks(MaxDepth) :
          InitWith(p.src, [stack |-> base, memory |-> EmptyMap], "Script")
    \/ \E base \in FlowStacks(1), l \in FlowLists, c \in OneValueCodes,
          op \in {K.c_map, K.c_filter}, m \in {EmptyMap, MapSet(EmptyMap, <<"x">>, Bool(TRUE))} :
          InitWith(op, [stack |-> base \o <<List(l), String(<<"x">>), String(c.code)>>,
                        memory |-> m], "Script")
    \/ \E base \in FlowStacks(1), thn \in Branches, els \in Branches, cond \in FlowConds,
          m \in FlowMemories :
          InitWith(K.c_if, [stack |-> base \o <<String(thn.code), String(els.code), cond>>,
                            memory |-> m], "Script")
    \/ \E base \in FlowStacks(MaxDepth), cond \in WhileConds, body \in WhileBodies, i \in 0..2 :
          InitWith(K.c_while, [stack |-> base \o <<String(body), String(cond)>>,
                               memory |-> MapSet(EmptyMap, <<"i">>, Number(i))], "Script")
    \/ \E p \in ListPrograms, base \in FlowStacks(1), m \in FlowMemories :
          InitWith(p.src, [stack |-> base, memory |-> m], "Script")
    \/ \E t \in ErrorTokens, base \in FlowStacks(1), m \in FlowMemories :
          InitWith(t.src, [stack |-> base, memory |-> m], "Script")

SpecFlow == InitFlow /\ [][Next]_vars

\* The stack below the operands of the operator the run started with.
Below(operands) == SubSeq(start.stack, 1, Len(start.stack) - operands)

Overlay(memory, binds) ==
    [x \in (DOMAIN memory) \cup (DOMAIN binds) |->
        IF x \in DOMAIN binds THEN binds[x] ELSE memory[x]]

IfCond == start.stack[Len(start.stack)]

IfElse == CHOOSE b \in Branches : b.code = start.stack[Len(start.stack) - 1].s

IfThen == CHOOSE b \in Branches : b.code = start.stack[Len(start.stack) - 2].s

\* C26: `if` pops cond, the else-code and the then-code, in that order, and
\* evaluates exactly one of the two codes: the then-code if and only if the
\* bool coercion of cond is true, else the else-code; the code not taken
\* prints nothing, binds nothing and pushes nothing.
C26_IfEvaluatesExactlyOneBranch ==
    (Src(K.c_if) /\ M.prog = <<>>) =>
        LET taken == IF get_bool(IfCond) THEN IfThen ELSE IfElse
        IN /\ M.status \in {"run", "done"}
           /\ M.printed = taken.printed
           /\ M.stack = Below(3) \o taken.pushes
           /\ M.memory = Overlay(start.memory, taken.binds)

\* Both ways: a true cond over two different codes, and a false one.
C26_Witness ==
    /\ Src(K.c_if) /\ M.prog = <<>>
    /\ IfThen.code # <<>> /\ IfElse.code # <<>> /\ IfThen # IfElse
    /\ IfCond = Error(<<"t", "r", "u", "e">>)
    /\ M.printed = <<<<"T">>>>
    /\ Len(M.stack) = 2

WhileCond == start.stack[Len(start.stack)].s

WhileBody == start.stack[Len(start.stack) - 1].s

\* How many entries from the top of the stack down are true as bools.
TruthyRun(stack) ==
    CHOOSE k \in 0..Len(stack) :
        /\ \A t \in 1..k : get_bool(stack[Len(stack) - t + 1])
        /\ k < Len(stack) => ~get_bool(stack[Len(stack) - k])

\* How many times the body printed.
Turns == Cardinality({k \in 1..Len(M.printed) : M.printed[k] = <<"B">>})

\* What was printed is a run of cond results, each true one followed by
\* the body once, nothing after a false one.
CondThenBody(yes, no) ==
    \A k \in 1..Len(M.printed) :
        /\ M.printed[k] \in {yes, no, <<"B">>}
        /\ M.printed[k] = <<"B">> => k > 1 /\ M.printed[k - 1] = yes
        /\ (M.printed[k] = yes /\ k < Len(M.printed)) => M.printed[k + 1] = <<"B">>
        /\ M.printed[k] = no => k = Len(M.printed)

\* C27: `while` pops the cond code, then the body code, and repeats:
\* evaluate cond, pop the top and coerce it to bool, evaluate the body only
\* if it is true.  The body is evaluated once per true cond result and never
\* after a false one; the loop ends exactly when a cond evaluation yields a
\* false top, the empty String popped from an empty stack included.
C27_WhileRunsBodyPerTruthyCond ==
    (Src(K.c_while) /\ M.prog = <<>>) =>
        /\ M.memory =
              MapSet(EmptyMap, <<"i">>,
                     IF WhileBody = <<"(", "B", ")", " ", "p", "r", "i", "n", "t">> THEN start.memory[<<"i">>]
                     ELSE Number(start.memory[<<"i">>].n + Turns))
        /\ WhileCond # <<"(", "C", ")", " ", "p", "r", "i", "n", "t">> =>
              /\ CondThenBody(<<"t", "r", "u", "e">>, <<"f", "a", "l", "s", "e">>)
              /\ M.status \in {"run", "done"} <=>
                    (M.printed # <<>> /\ M.printed[Len(M.printed)] = <<"f", "a", "l", "s", "e">>)
              /\ M.status \in {"run", "done"} => M.stack = Below(2)
        /\ WhileCond = <<"(", "C", ")", " ", "p", "r", "i", "n", "t">> =>
              /\ M.status \in {"run", "done"}
              /\ Turns = TruthyRun(Below(2))
              /\ Len(M.printed) = 2 * Turns + 1
              /\ \A k \in 1..Len(M.printed) :
                    M.printed[k] = IF k % 2 = 1 THEN <<"C">> ELSE <<"B">>
              /\ M.stack = SubSeq(Below(2), 1, Len(Below(2)) - Turns - 1)

\* Two turns and then a false cond.
C27_Witness ==
    /\ Src(K.c_while) /\ M.prog = <<>>
    /\ M.printed = <<<<"t", "r", "u", "e">>, <<"B">>, <<"t", "r", "u", "e">>, <<"B">>, <<"f", "a", "l", "s", "e">>>>
    /\ M.memory[<<"i">>] = Number(2)
    /\ M.status \in {"run", "done"}

\* The other ends: the empty stack ends the loop; a loop that never ends.
C27_WitnessEmptyStack ==
    /\ Src(K.c_while) /\ M.prog = <<>> /\ Len(start.stack) = 2
    /\ M.printed = <<<<"C">>>> /\ M.status \in {"run", "done"}

C27_WitnessHang ==
    /\ Src(K.c_while) /\ M.prog = <<>>
    /\ M.status = "hang" /\ M.printed = <<<<"t", "r", "u", "e">>, <<"B">>>>

ListProgram == CHOOSE p \in ListPrograms : p.src = start.src

\* C28: a list literal whose inside only pushes values pushes exactly one
\* List: the values the inside pushed, as many and in the order they were
\* pushed; a list literal inside gives a List inside, `[]` the empty List.
\* The stack below and Memory stay as they were.
C28_ListLiteralPushesOneList ==
    ((\E p \in ListPrograms : Src(p.src)) /\ M.prog = <<>>) =>
        /\ M.status \in {"run", "done"}
        /\ M.stack = Append(start.stack, ListProgram.value)
        /\ M.memory = start.memory
        /\ M.printed = <<>>

\* A List of a List and a Number on top of an earlier entry.
C28_Witness ==
    /\ Src(<<"[", "[", "1", " ", "2", "]", " ", "3", "]">>) /\ M.prog = <<>>
    /\ Len(M.stack) = 2
    /\ M.stack[2] = List(<<List(<<Number(1), Number(2)>>), Number(3)>>)

ErrorToken == CHOOSE t \in ErrorTokens : t.src = start.src

\* C29: a token that begins with `error:` pushes Error(k), k being exactly
\* the text of the token after the leading `error:`, whatever that text is,
\* a text that itself contains `error:` included.
C29_ErrorTokenKeepsRemainder ==
    ((\E t \in ErrorTokens : Src(t.src)) /\ M.prog = <<>>) =>
        M.stack = Append(start.stack, Error(ErrorToken.rest))

FlowList == start.stack[Len(start.stack) - 2].l

FlowCode == CHOOSE c \in OneValueCodes : c.code = start.stack[Len(start.stack)].s

\* Whether the value the code leaves for element v is true as a bool.
Kept(v) == get_bool(FlowCode.result[v])

\* C30: for a code operand that pushes exactly one value per evaluation,
\* map(list, var, code) pushes a List of len(list) elements, the i-th the
\* value code left with var bound to the i-th element, and
\* filter(list, var, code) pushes the List of the elements of the list, not
\* of the code results, for which that value is true, in their order; var
\* is bound before each evaluation and the stack below the three operands
\* is unchanged.
C30_MapAndFilterOverOneValueCode ==
    (Src(K.c_map) \/ Src(K.c_filter)) /\ M.prog = <<>> =>
        /\ M.status \in {"run", "done"}
        /\ Src(K.c_map) =>
              M.stack = Append(Below(3),
                               List([i \in 1..Len(FlowList) |-> FlowCode.result[FlowList[i]]]))
        /\ Src(K.c_filter) =>
              M.stack = Append(Below(3), List(SelectSeq(FlowList, Kept)))

\* filter kept the elements below 2 of [1 0 1] on top of an earlier entry.
C30_Witness ==
    /\ Src(K.c_filter) /\ M.prog = <<>>
    /\ FlowList = <<Number(2), Number(1), Number(3)>>
    /\ FlowCode.code = <<"x", " ", "2", " ", "l", "e", "s", "s">>
    /\ Len(M.stack) = 2
    /\ M.stack[2] = List(<<Number(1)>>)

C30_WitnessMap ==
    /\ Src(K.c_map) /\ M.prog = <<>>
    /\ FlowList = <<Number(2), Number(1), Number(3)>>
    /\ Len(M.stack) = 2
    /\ M.stack[2] = List(<<String(<<"k", "2">>), String(<<"k", "1">>), String(<<"k", "3">>)>>)

(***************************************************************************)
(* What handle leaves behind: the responses on the connection and the      *)
(* stack of the executor when it returns.                                  *)
(***************************************************************************)
\* The stack without its n topmost entries.
DropTop(stack, n) == SubSeq(stack, 1, Len(stack) - n)

\* The handler of request i ran and handle returned.
Handled(i) == conns[i].state = "responded" /\ conns[i].ran # <<>>

\* C31: for every accepted connection whose handler terminates, exactly one
\* response is written to the connection and exactly two entries, the
\* response value and the MIME, are popped from the stack the handler left,
\* whether the response value is Binary or not.
C31_OneResponseTwoPops ==
    \A i \in ConnIds :
        Handled(i) =>
            /\ Len(conns[i].out) = 1
            /\ conns[i].final = DropTop(conns[i].left, 2)

\* The handler of request i pushed exactly two entries on the stack it
\* started on, a MIME String and above it a response value.
PushedMimeAndValue(i) ==
    LET c == conns[i]
        n == Len(c.seen.stack)
    IN /\ Handled(i)
       /\ c.matching \in DOMAIN Table
       /\ Len(c.left) = n + 2
       /\ SubSeq(c.left, 1, n) = c.seen.stack
       /\ c.left[n + 1].t = "String"

\* C32: handling a request to a registered route whose handler pushes
\* exactly a MIME String and a response value leaves the stack of the
\* executor exactly as it was before the request: neither the pushed body
\* nor, on auth routes, the [user, pass] pair remains.
C32_HandleLeavesStackAsItWas ==
    \A i \in ConnIds : PushedMimeAndValue(i) => conns[i].final = conns[i].entry

\* Request i fell to the literal 404: no route, and no `not-found` handler.
LiteralNotFound(i) ==
    /\ conns[i].state = "responded"
    /\ Did(conns[i], "notfound")
    /\ conns[i].ran = <<>>

\* C33: a request to an unknown route, when the table has no `not-found`
\* handler, leaves the stack and Memory of the executor unchanged, and the
\* response written (status, Content-Type, body) is the same whatever the
\* stack holds at that moment.
C33_LiteralNotFoundTouchesNothing ==
    \A i \in ConnIds :
        LiteralNotFound(i) =>
            /\ conns[i].final = conns[i].entry
            /\ \A j \in ConnIds : LiteralNotFound(j) => conns[j].out = conns[i].out

PoppingList == CHOOSE p \in PoppingLists : p.src = start.src

\* What the inside of the literal leaves: the stack without the entries it
\* popped (an empty stack pops nothing), then what it pushed.
InsideLeaves ==
    DropTop(start.stack, IF PoppingList.pops <= Len(start.stack) THEN PoppingList.pops
                         ELSE Len(start.stack))
        \o PoppingList.pushes

\* C34 as stated: evaluating a list literal token pushes exactly one List
\* and leaves every stack entry that was present before the token unchanged
\* (net depth +1), whatever the inner program does, inner programs that pop
\* more than they push included.
C34_ListLiteralLeavesStackBelow ==
    ((\E p \in PoppingLists \cup ListPrograms : Src(p.src)) /\ M.prog = <<>>) =>
        /\ Len(M.stack) = Len(start.stack) + 1
        /\ DropTop(M.stack, 1) = start.stack
        /\ M.stack[Len(M.stack)].t = "List"

\* C34 amended: evaluating a list literal token pushes exactly one List on
\* top of the stack.  When the inner program pops none of the entries that
\* were present before the token, those entries are unchanged and the net
\* depth is +1.  When it pops some of them they are not put back: the List
\* holds the entries that lie above the old depth in the stack the inner
\* program leaves (none when that stack is not deeper than the old one), and
\* below the List is the rest of what the inner program left.
C34_ListLiteralTakesWhatLiesAboveOldDepth ==
    ((\E p \in PoppingLists : Src(p.src)) /\ M.prog = <<>>) =>
        LET old_len == Len(start.stack)
            n == Len(InsideLeaves)
        IN /\ M.status \in {"run", "done"}
           /\ M.stack[Len(M.stack)].t = "List"
           /\ PoppingList.pops = 0 =>
                 M.stack = Append(start.stack, List(PoppingList.pushes))
           /\ n > old_len =>
                 M.stack = Append(SubSeq(InsideLeaves, 1, old_len),
                                  List(SubSeq(InsideLeaves, old_len + 1, n)))
           /\ n <= old_len => M.stack = Append(InsideLeaves, List(<<>>))

\* `[pop 5 6]` on two entries: the top one is gone, 5 took its place.
C34_Witness ==
    /\ Src(<<"[", "p", "o", "p", " ", "5", " ", "6", "]">>) /\ M.prog = <<>>
    /\ Len(start.stack) = 2
    /\ M.stack = <<start.stack[1], Number(5), List(<<Number(6)>>)>>
    /\ start.stack[2] # Number(5)

(***************************************************************************)
(* String literals at the top level of a source.                           *)
(***************************************************************************)

\* The parentheses of `text` nest: no prefix closes more than it opened, and
\* the whole text closes all it opened.
Nested(text) ==
    /\ \A k \in 0..Len(text) :
           Count(SubSeq(text, 1, k), "(") >= Count(SubSeq(text, 1, k), ")")
    /\ Count(text, "(") = Count(text, ")")

\* The characters of `text` outside its #...# stretches.
Outside(text) ==
    LET keep == {i \in 1..Len(text) :
                     text[i] # "#" /\ Count(SubSeq(text, 1, i - 1), "#") % 2 = 0}
        RECURSIVE Pick(_)
        Pick(i) == IF i > Len(text) THEN <<>>
                   ELSE IF i \in keep THEN <<text[i]>> \o Pick(i + 1) ELSE Pick(i + 1)
    IN Pick(1)

\* The source is the literal (inner) followed by `rest`; the literal was
\* lexed as one token before the tokens of `rest`, and once evaluated it is
\* the String `inner` at the bottom of a stack that holds one value per
\* token evaluated.
OneTokenOneString(inner, rest) ==
    /\ actor = 0 => M.prog = <<Literal(inner)>> \o analyze_syntax(rest)
    /\ actor # 0 =>
           /\ M.status \in {"run", "done"}
           /\ Len(M.stack) = 1 + Len(analyze_syntax(rest)) - Len(M.prog)
           /\ M.stack[1] = String(inner)

\* What follows the inner text of a literal that `rest` comes after.
Closing(rest) == IF rest = <<>> THEN <<")">> ELSE <<")", " ">> \o rest

\* The source is a literal (...) followed by `rest`.
LiteralBefore(rest) ==
    LET src == start.src
        n == Len(Closing(rest))
    IN /\ Len(src) >= 1 + n
       /\ src[1] = "("
       /\ SubSeq(src, Len(src) - n + 1, Len(src)) = Closing(rest)

InnerBefore(rest) == SubSeq(start.src, 2, Len(start.src) - Len(Closing(rest)))

LiteralWithPairedHashIsOneString ==
    \A rest \in Rests :
        (/\ LiteralBefore(rest)
         /\ Count(InnerBefore(rest), "\\") = 0
         /\ Nested(InnerBefore(rest))
         /\ Count(InnerBefore(rest), "#") % 2 = 0
         /\ Nested(Outside(InnerBefore(rest))))
        => OneTokenOneString(InnerBefore(rest), rest)

\* The literal (#[#) was followed by (x y) 7: three values were pushed, the
\* first the String with its bracket and its pair of hashes.
PairedHashLiteralPushed ==
    /\ Src(LiteralThen(<<"#", "[", "#">>, <<"(", "x", " ", "y", ")", " ", "7">>))
    /\ Finished
    /\ M.stack = <<String(<<"#", "[", "#">>), String(<<"x", " ", "y">>), Number(7)>>

\* The literal ([ ]) with a space inside, followed by a list.
BracketLiteralPushed ==
    /\ Src(LiteralThen(<<"[", " ", "]">>, <<"[", "7", " ", "8", "]">>))
    /\ Finished
    /\ Len(M.stack) = 2 /\ M.stack[1] = String(<<"[", " ", "]">>)

(***************************************************************************)
(* Tokens are never empty, and an escape lasts one character.              *)
(***************************************************************************)

\* The escape flag after the first k characters of the source, in the lexer
\* (split) and in the string-escape pass (not split).
EscapeAfter(k, split) == LexScan(LexInit, Normalise(start.src), 1, k, split).escape

\* The flag is set by a backslash read while it is off and by nothing else,
\* so it is off again after the one character that follows.
EscapeLastsOneCharacter ==
    \A split \in BOOLEAN : \A k \in 1..Len(start.src) :
        EscapeAfter(k, split) <=> (start.src[k] = "\\" /\ ~EscapeAfter(k - 1, split))

\* C36: analyze_syntax never emits an empty token, whatever the input (the
\* empty input, runs of spaces, escapes, unbalanced or negative-depth
\* delimiters), so every token evaluate_program is about to classify has a
\* first and a last character; and the escape flag is cleared after exactly
\* one following character.
C36_NoEmptyTokenAndEscapeLastsOne ==
    /\ \A i \in 1..Len(M.prog) : Len(M.prog[i]) >= 1
    /\ EscapeLastsOneCharacter

\* The source `) \a`: the depth is negative after the first character, so
\* the space does not separate; the backslash set the flag and the `a`
\* cleared it; the one token holds all four characters.
C36_Witness ==
    /\ Src(<<")", " ", "\\", "a">>)
    /\ actor = 0
    /\ M.prog = <<start.src>>
    /\ EscapeAfter(3, TRUE) /\ ~EscapeAfter(4, TRUE)

\* A source with leading, doubled and trailing spaces gave two tokens.
C36_WitnessSpaces ==
    /\ Src(<<" ", "a", " ", " ">>) \/ Src(<<"a", " ", " ", "a">>)
    /\ actor = 0
    /\ Len(M.prog) = Count(start.src, "a")

(***************************************************************************)
(* The mode of an executor.                                                *)
(***************************************************************************)
OtherMode(mode) == IF mode = "Script" THEN "Debug" ELSE "Script"

\* The tokens the main executor has evaluated so far.
Evaluated ==
    LET syntax == analyze_syntax(start.src)
    IN SubSeq(syntax, 1, Len(syntax) - Len(M.prog))

\* The same tokens evaluated from the same stack and Memory in the other mode.
InOtherMode ==
    RunTokens(Evaluated, Load(start.src, start.stack, start.memory, OtherMode(start.mode)))

\* C37: the mode affects only what is written out.  At every step of a run,
\* the stack and the Memory are those of the same program run from the same
\* stack and Memory in the other mode (Script against Debug), the two runs
\* stop or go on alike, and no executor ever has a mode other than the one
\* the run started in.
C37_ModeChangesOnlyOutput ==
    /\ \A e \in Ids : execs[e].status # "absent" => execs[e].mode = start.mode
    /\ InOtherMode.mode = OtherMode(start.mode)
    /\ M.stack = InOtherMode.stack
    /\ M.memory = InOtherMode.memory
    /\ (M.status \in {"run", "done"}) <=> (InOtherMode.status = "run")

\* `(a) println 5` has run in Debug mode: what was written differs from what
\* Script mode writes, and the stack is the same, the 5 above what was there.
C37_Witness ==
    /\ Src(<<"(", "a", ")", " ", "p", "r", "i", "n", "t", "l", "n", " ", "5">>)
    /\ start.mode = "Debug"
    /\ Finished
    /\ M.printed = <<<<"[", "O", "u", "t", "p", "u", "t", "]", ":", " ", "a">> \o <<"\n">>>>
    /\ InOtherMode.printed = <<<<"a", "\n">>>>
    /\ M.stack = start.stack \o <<Number(5)>>

====
